---- MODULE Spec2Model ----
(***************************************************************************)
(* Mallard: a DuckDB-backed Arrow Flight server (src/flight_server.py and  *)
(* its two-server twin src/flight/flight_server.py).                       *)
(*                                                                         *)
(* The module models one DuckDBFlightServer instance: its exchanger        *)
(* registry, its auth middleware, its DuckDB connection, the Flight        *)
(* verbs do_exchange, do_put and do_action, and shutdown.                  *)
(* Every Flight call runs on a transport worker thread, so a call is a     *)
(* slot of `calls` with a program counter; one action is one step of the   *)
(* handler between two accesses of shared state (CPython executes a dict   *)
(* lookup or store atomically under the interpreter lock).                 *)
(***************************************************************************)
EXTENDS Integers, Sequences, FiniteSets, TLC

(***************************************************************************)
(* Bounds of the model.                                                    *)
(***************************************************************************)
MaxCalls == 2          \* concurrent calls in one behaviour, each in its own slot
MaxBatches == 3        \* batches in one input stream
MaxRows == 1           \* rows in a batch that has rows
MaxSequential == 2     \* calls made one after the other in one behaviour
MaxInstances == 2      \* configs given to the manager
MaxTokenCalls == 3     \* calls one client makes of the token table
MaxRegistrations == 2  \* add_exchange actions sent to the fleet
MaxSignals == 1        \* shutdown signals delivered to the process

(***************************************************************************)
(* Text.  A Python str is a sequence of one-character strings, so that     *)
(* str.upper() and str.startswith() are computed, not assumed.             *)
(***************************************************************************)
LowerLetters == <<"a","b","c","d","e","f","g","h","i","j","k","l","m",
                  "n","o","p","q","r","s","t","u","v","w","x","y","z">>
UpperLetters == <<"A","B","C","D","E","F","G","H","I","J","K","L","M",
                  "N","O","P","Q","R","S","T","U","V","W","X","Y","Z">>

\* str.upper() on one character
UpperChar(ch) ==
    IF \E i \in 1..26 : LowerLetters[i] = ch
    THEN UpperLetters[CHOOSE i \in 1..26 : LowerLetters[i] = ch]
    ELSE ch

\* str.upper()
Upper(s) == [i \in 1..Len(s) |-> UpperChar(s[i])]

\* str.startswith(prefix)
StartsWith(s, prefix) ==
    /\ Len(prefix) <= Len(s)
    /\ SubSeq(s, 1, Len(prefix)) = prefix

\* the list sql_keywords of _is_sql_query
sql_keywords ==
    << <<"S","E","L","E","C","T">>, <<"I","N","S","E","R","T">>,
       <<"U","P","D","A","T","E">>, <<"D","E","L","E","T","E">>,
       <<"C","R","E","A","T","E">>, <<"D","R","O","P">>,
       <<"A","L","T","E","R">>,     <<"W","I","T","H">> >>

\* DuckDBFlightServer._is_sql_query
\* any(command.upper().startswith(kw) for kw in sql_keywords)
_is_sql_query(command) ==
    \E k \in 1..Len(sql_keywords) : StartsWith(Upper(command), sql_keywords[k])

(***************************************************************************)
(* Commands and exchanger classes.                                         *)
(***************************************************************************)
\* AbstractExchanger.command = ""
AbstractExchanger_command == << >>

\* MyStreamingExchanger.command = "my_streaming_exchanger"
MyStreamingExchanger_command ==
    <<"m","y","_","s","t","r","e","a","m","i","n","g","_",
      "e","x","c","h","a","n","g","e","r">>

CmdSelect1  == <<"s","e","l","e","c","t"," ","1">>          \* "select 1"
CmdSelector == <<"s","e","l","e","c","t","o","r">>          \* "selector"
CmdCustom   == <<"c","u","s","t","o","m">>                  \* "custom"
CmdPadded   == <<" ","S","E","L","E","C","T"," ","1">>      \* " SELECT 1"

\* descriptor commands a client sends in an exchange call
Commands ==
    { MyStreamingExchanger_command, CmdSelect1, CmdSelector, CmdCustom,
      CmdPadded, AbstractExchanger_command }

\* AddExchangeAction.name
AddExchangeAction_name == "add_exchange"

\* action types a client sends
ActionTypes == { AddExchangeAction_name, "drop_exchange" }

\* What cloudpickle.loads(action.body) can yield: a subclass of
\* AbstractExchanger (declaring its own command and exchange_f or inheriting
\* them), a class that is no subclass, or an object that is no class at all.
Payloads ==
    { [kind |-> "class", subclass |-> TRUE,  cls |-> "CustomStreamingExchanger",
       declares_command |-> TRUE,  own_command |-> MyStreamingExchanger_command,
       defines_exchange_f |-> TRUE],
      [kind |-> "class", subclass |-> TRUE,  cls |-> "SelectorExchanger",
       declares_command |-> TRUE,  own_command |-> CmdSelector,
       defines_exchange_f |-> TRUE],
      [kind |-> "class", subclass |-> TRUE,  cls |-> "CustomA",
       declares_command |-> TRUE,  own_command |-> CmdCustom,
       defines_exchange_f |-> TRUE],
      [kind |-> "class", subclass |-> TRUE,  cls |-> "CustomB",
       declares_command |-> TRUE,  own_command |-> CmdCustom,
       defines_exchange_f |-> TRUE],
      [kind |-> "class", subclass |-> TRUE,  cls |-> "NoCommand",
       declares_command |-> FALSE, own_command |-> AbstractExchanger_command,
       defines_exchange_f |-> TRUE],
      [kind |-> "class", subclass |-> TRUE,  cls |-> "NoExchangeF",
       declares_command |-> TRUE,  own_command |-> CmdSelect1,
       defines_exchange_f |-> FALSE],
      [kind |-> "class", subclass |-> FALSE, cls |-> "Unrelated",
       declares_command |-> TRUE,  own_command |-> CmdCustom,
       defines_exchange_f |-> TRUE],
      [kind |-> "object", subclass |-> FALSE, cls |-> "function",
       declares_command |-> FALSE, own_command |-> AbstractExchanger_command,
       defines_exchange_f |-> FALSE] }

NoPayload ==
    [kind |-> "none", subclass |-> FALSE, cls |-> "none",
     declares_command |-> FALSE, own_command |-> AbstractExchanger_command,
     defines_exchange_f |-> FALSE]

\* exchanger_class(): an instance; attribute lookup falls back to the base
\* class (AbstractExchanger.command, AbstractExchanger.exchange_f).
Instantiate(p) ==
    [cls |-> p.cls,
     command |-> IF p.declares_command THEN p.own_command
                 ELSE AbstractExchanger_command,
     has_exchange_f |-> p.defines_exchange_f,
     reg |-> 0]

\* MyStreamingExchanger()
MyStreamingExchanger ==
    [cls |-> "MyStreamingExchanger", command |-> MyStreamingExchanger_command,
     has_exchange_f |-> TRUE, reg |-> 0]

NoExchanger ==
    [cls |-> "none", command |-> AbstractExchanger_command,
     has_exchange_f |-> FALSE, reg |-> 0]


(***************************************************************************)
(* State.                                                                  *)
(***************************************************************************)
VARIABLES
    exchangers,          \* self.exchangers: command -> exchanger instance
    default_pending,     \* the manager has yet to pre-register the default
    regLog,              \* history: the stores into self.exchangers, in order
    returnedRegs,        \* history: the registrations that have returned (a set)
    executed,            \* history: statements run on self.db_conn
    db_tables,           \* DuckDB catalog: table name -> [cols, rows]
    db_views,            \* relations registered on the connection
    auth_enabled,        \* config.auth_enabled
    config_credentials,  \* the credentials argument of the config
    credentials,         \* AuthMiddlewareFactory.credentials
    tokens,              \* AuthMiddlewareFactory.tokens: token -> username
    issued,              \* tokens drawn so far from secrets.token_urlsafe
    shutdown_requested,  \* self._shutdown_requested
    serving,             \* the transport accepts calls
    db_open,             \* the DuckDB connection is open
    transport_stops,     \* history: calls of FlightServerBase.shutdown()
    db_closes,           \* history: calls of database_manager.close()
    calls,               \* the calls in progress, one record per slot
    started,             \* history: calls made one after the other
    variant,             \* the module run: "root" (src/flight_server.py) or
                         \* "flight" (src/flight/flight_server.py)
    instances,           \* the manager's servers, one record per config
    manager,             \* the thread running the manager: its position
    shutdown_event,      \* manager.shutdown_event is set
    running_servers      \* manager.running_servers, as indices of configs

regVars  == <<exchangers, default_pending, regLog, returnedRegs>>
dbVars   == <<executed, db_tables, db_views>>
authVars == <<auth_enabled, config_credentials, credentials, tokens, issued>>
lifeVars == <<shutdown_requested, serving, db_open, transport_stops, db_closes>>
callVars == <<calls, started>>
fleetVars == <<variant, instances, manager, shutdown_event, running_servers>>
serverVars == <<regVars, dbVars, authVars, lifeVars, callVars>>
vars     == <<serverVars, fleetVars>>

Calls == 1..MaxCalls

\* a dict with no key
EmptyDict == [k \in {} |-> NoExchanger]

\* Faulty stores, which the registry properties must tell from d[k] = v:
\* one that drops the other keys, one that folds the key to upper case, one
\* that keeps the value a key already has.
SetItemClobber(d, k, v) == [x \in {k} |-> v]
SetItemUpperKey(d, k, v) ==
    [x \in DOMAIN d \cup {Upper(k)} |-> IF x = Upper(k) THEN v ELSE d[x]]
SetItemIfAbsent(d, k, v) ==
    [x \in DOMAIN d \cup {k} |-> IF x \in DOMAIN d THEN d[x] ELSE v]

\* dict.__setitem__: d[k] = v
SetItem(d, k, v) ==
    [x \in DOMAIN d \cup {k} |-> IF x = k THEN v ELSE d[x]]

\* the authorization header of a call: absent, or "<scheme> <value>"
NoHeader == [scheme |-> "none", value |-> "none"]

\* the stream a handler writes: begin(schema), write_batch(...), close()
NoWriter ==
    [begun |-> 0, schema |-> << >>, batches |-> << >>, processed |-> << >>,
     closed |-> 0]

\* do_get has returned no stream
NoStream == [present |-> FALSE, schema |-> << >>, batches |-> << >>]

\* a call slot that holds no call
Idle ==
    [pc |-> "idle", verb |-> "none", header |-> NoHeader,
     command |-> << >>, atype |-> "none", payload |-> NoPayload,
     schema |-> << >>, input |-> << >>, reader |-> << >>,
     exchanger |-> NoExchanger, all_incoming |-> << >>, writer |-> NoWriter,
     result |-> "none", error |-> "none", available |-> {},
     path |-> "none", present_at_start |-> FALSE, minReg |-> 0,
     stored |-> FALSE, ran |-> << >>, read_error |-> FALSE,
     tables_before |-> EmptyDict, returned |-> NoStream]

\* the largest number of a set of naturals, 0 for the empty set
Max(S) == IF S = {} THEN 0 ELSE CHOOSE m \in S : \A n \in S : n <= m

\* history: the latest returned registration under a command, 0 if none
LastReturned(command) ==
    Max({ r.reg : r \in { x \in returnedRegs : x.command = command } })

\* A call as the transport hands it over.  DuckDBFlightServer.__init__ calls
\* super().__init__(config.location) with no middleware argument, and
\* FlightServerBase builds its options and starts the transport in that
\* constructor; `self.middleware = {"auth": ...}`, assigned afterwards when
\* config.auth_enabled, is an attribute the transport never reads.  So a call
\* goes to the verb's handler, whatever auth_enabled is.
NewCall(verb, fields) ==
    [x \in DOMAIN Idle |->
        IF x = "pc" THEN verb
        ELSE IF x = "verb" THEN verb
        ELSE IF x \in DOMAIN fields THEN fields[x]
        ELSE Idle[x]]

\* The transport accepts a call while it is serving.
BeginCall(c, verb, fields) ==
    /\ serving
    /\ calls[c].pc = "idle"
    /\ calls' = [calls EXCEPT ![c] = NewCall(verb, fields)]
    /\ UNCHANGED started

\* Slots are interchangeable: concurrent calls take them in order.
InOrder(c) == \A d \in 1..(c - 1) : calls[d].pc # "idle"

\* The transport accepts a call once the one before it has ended: the
\* calls of such a client share slot 1.
BeginSequentialCall(verb, fields) ==
    /\ serving
    /\ calls[1].pc \in {"idle", "done"}
    /\ started < MaxSequential
    /\ started' = started + 1
    /\ calls' = [calls EXCEPT ![1] = NewCall(verb, fields)]

(***************************************************************************)
(* The engine, as far as the handlers see it.                              *)
(***************************************************************************)
\* dict without key k
DelItem(d, k) == [x \in DOMAIN d \ {k} |-> d[x]]

\* Statement texts a client sends, besides those of Commands.
\* "CREATE TABLE flights (a INT)"
TicketCreate ==
    <<"C","R","E","A","T","E"," ","T","A","B","L","E"," ","f","l","i","g",
      "h","t","s"," ","(","a"," ","I","N","T",")">>

\* " drop table flights"
TicketDrop ==
    <<" ","d","r","o","p"," ","t","a","b","l","e"," ","f","l","i","g","h",
      "t","s">>

\* "ALTER TABLE flights ADD COLUMN b INT"
TicketAlter ==
    <<"A","L","T","E","R"," ","T","A","B","L","E"," ","f","l","i","g","h",
      "t","s"," ","A","D","D"," ","C","O","L","U","M","N"," ","b"," ","I",
      "N","T">>

\* "SELECT * FROM flights"
TicketSelect ==
    <<"S","E","L","E","C","T"," ","*"," ","F","R","O","M"," ","f","l","i",
      "g","h","t","s">>

\* "INSERT INTO flights VALUES (1)"
TicketInsert ==
    <<"I","N","S","E","R","T"," ","I","N","T","O"," ","f","l","i","g","h",
      "t","s"," ","V","A","L","U","E","S"," ","(","1",")">>

\* "/**/CREATE TABLE flights (a INT)"
TicketCommentCreate ==
    <<"/","*","*","/","C","R","E","A","T","E"," ","T","A","B","L","E"," ",
      "f","l","i","g","h","t","s"," ","(","a"," ","I","N","T",")">>

\* the columns of the tables of these statements, in order
ColumnNames == <<"a", "b">>

\* What DuckDB's parser makes of a text: blanks and comments before the
\* statement are skipped and keywords are matched in any letter case;
\* "selector" and the other texts of Commands are no statements.
Statement(text) ==
    CASE text \in {TicketCreate, TicketCommentCreate} ->
             [kind |-> "create", table |-> "flights"]
      [] text = TicketDrop   -> [kind |-> "drop",   table |-> "flights"]
      [] text = TicketAlter  -> [kind |-> "alter",  table |-> "flights"]
      [] text = TicketSelect -> [kind |-> "select", table |-> "flights"]
      [] text = TicketInsert -> [kind |-> "insert", table |-> "flights"]
      [] text \in {CmdSelect1, CmdPadded} -> [kind |-> "select1", table |-> "none"]
      [] OTHER -> [kind |-> "invalid", table |-> "none"]

\* the outcome of a statement the engine rejects, or cannot run because the
\* connection is closed
Rejected(tables) ==
    [ok |-> FALSE, tables |-> tables, has_result |-> FALSE,
     schema |-> << >>, batches |-> << >>]

\* the outcome of a statement that changes the catalog or a table and has
\* no result set
Changed(tables) ==
    [ok |-> TRUE, tables |-> tables, has_result |-> FALSE,
     schema |-> << >>, batches |-> << >>]

\* the outcome of a statement with a result set
ResultSet(tables, schema, rows) ==
    [ok |-> TRUE, tables |-> tables, has_result |-> TRUE,
     schema |-> schema,
     batches |-> IF rows = 0 THEN << >> ELSE <<rows>>]

\* DuckDB running one statement on a catalog: CREATE TABLE fails when the
\* table exists, DROP, ALTER, SELECT and INSERT when it does not; ADD COLUMN
\* fails when the column exists; INSERT ... VALUES (1) fails when the table
\* has another column count.
EngineRun(tables, text) ==
    LET st == Statement(text)
        t  == st.table
    IN  CASE st.kind = "create" ->
                 IF t \in DOMAIN tables THEN Rejected(tables)
                 ELSE Changed(SetItem(tables, t, [cols |-> 1, rows |-> 0]))
          [] st.kind = "drop" ->
                 IF t \notin DOMAIN tables THEN Rejected(tables)
                 ELSE Changed(DelItem(tables, t))
          [] st.kind = "alter" ->
                 IF t \notin DOMAIN tables \/ tables[t].cols >= Len(ColumnNames)
                 THEN Rejected(tables)
                 ELSE Changed([tables EXCEPT ![t].cols = @ + 1])
          [] st.kind = "insert" ->
                 IF t \notin DOMAIN tables \/ tables[t].cols # 1
                 THEN Rejected(tables)
                 ELSE Changed([tables EXCEPT ![t].rows = @ + 1])
          [] st.kind = "select" ->
                 IF t \notin DOMAIN tables THEN Rejected(tables)
                 ELSE ResultSet(tables, SubSeq(ColumnNames, 1, tables[t].cols),
                                tables[t].rows)
          [] st.kind = "select1" -> ResultSet(tables, <<"1">>, 1)
          [] OTHER -> Rejected(tables)

\* self.db_conn.sql(command) and self.db_conn.execute(command) on the
\* instance's connection: both run the statement; a closed connection
\* rejects every statement.  sql() returns a relation when the statement
\* has a result set and None when it has none, so that
\* .fetch_arrow_table() then raises AttributeError.
EngineSql(command) ==
    IF db_open THEN EngineRun(db_tables, command) ELSE Rejected(db_tables)

(***************************************************************************)
(* do_exchange                                                             *)
(***************************************************************************)
\* a call ends: with a result (error = "none") or with the error it raises
Finish(rec, error) ==
    [rec EXCEPT !.pc = "done",
                !.result = IF error = "none" THEN "ok" ELSE "failed",
                !.error = error]

\* A faulty dispatch, which tests the SQL keywords before the registry.
DoExchangeSqlFirst(c) ==
    /\ calls[c].pc = "do_exchange"
    /\ calls' = [calls EXCEPT ![c].pc =
                    IF _is_sql_query(calls[c].command) THEN "no_exchanger"
                    ELSE IF calls[c].command \in DOMAIN exchangers
                    THEN "fetch_exchanger" ELSE "no_exchanger"]
    /\ UNCHANGED <<fleetVars, started, regVars, dbVars, authVars, lifeVars>>

\* do_exchange, `if command in self.exchangers`
DoExchange(c) ==
    /\ calls[c].pc = "do_exchange"
    /\ calls' = [calls EXCEPT ![c].pc =
                    IF calls[c].command \in DOMAIN exchangers
                    THEN "fetch_exchanger" ELSE "no_exchanger"]
    /\ UNCHANGED <<fleetVars, started, regVars, dbVars, authVars, lifeVars>>

\* do_exchange, `exchanger = self.exchangers[command]` and then
\* `exchanger.exchange_f(context, reader, writer)`: the base class's
\* exchange_f raises, MyStreamingExchanger's runs below, and a
\* client-supplied one is the client's code (it runs and returns).
FetchExchanger(c) ==
    /\ calls[c].pc = "fetch_exchanger"
    /\ calls' = [calls EXCEPT ![c] =
           IF calls[c].command \notin DOMAIN exchangers
           THEN Finish(calls[c], "KeyError")
           ELSE LET exchanger == exchangers[calls[c].command]
                    rec == [calls[c] EXCEPT !.path = "handler",
                                            !.exchanger = exchanger]
                IN  IF ~exchanger.has_exchange_f
                    THEN Finish(rec, "NotImplementedError")
                    ELSE IF exchanger.cls = "MyStreamingExchanger"
                    THEN [rec EXCEPT !.pc = "read_chunk"]
                    ELSE Finish(rec, "none")]
    /\ UNCHANGED <<fleetVars, started, regVars, dbVars, authVars, lifeVars>>

\* A faulty fallback, which matches the keywords without command.upper()
\* and streams no result.
SqlOrUnknownCaseSensitive(c) ==
    /\ calls[c].pc = "no_exchanger"
    /\ LET cmd == calls[c].command
           res == EngineSql(cmd)
           sql == \E k \in 1..Len(sql_keywords) : StartsWith(cmd, sql_keywords[k])
       IN  /\ calls' = [calls EXCEPT ![c] =
                 IF sql
                 THEN Finish([calls[c] EXCEPT !.path = "sql", !.ran = <<cmd>>],
                             "EngineError")
                 ELSE Finish([calls[c] EXCEPT !.path = "unknown",
                                  !.available = DOMAIN exchangers],
                             "FlightServerError")]
           /\ executed' = IF sql THEN Append(executed, cmd) ELSE executed
    /\ UNCHANGED <<fleetVars, started, regVars, db_tables, db_views, authVars, lifeVars>>

\* do_exchange past the registry: _is_sql_query, then _handle_sql_exchange
\* or the unknown-command error with list(self.exchangers.keys())
SqlOrUnknown(c) ==
    /\ calls[c].pc = "no_exchanger"
    /\ LET cmd == calls[c].command
           res == EngineSql(cmd)
       IN  /\ calls' = [calls EXCEPT ![c] =
                 IF _is_sql_query(cmd)
                 THEN IF res.ok /\ res.has_result
                      THEN Finish([calls[c] EXCEPT !.path = "sql",
                                       !.ran = <<cmd>>,
                                       !.writer = [NoWriter EXCEPT
                                           !.begun = 1, !.schema = res.schema,
                                           !.batches = res.batches,
                                           !.closed = 1]],
                                  "none")
                      ELSE Finish([calls[c] EXCEPT !.path = "sql",
                                       !.ran = <<cmd>>],
                                  IF res.ok THEN "AttributeError"
                                  ELSE "EngineError")
                 ELSE Finish([calls[c] EXCEPT !.path = "unknown",
                                  !.available = DOMAIN exchangers],
                             "FlightServerError")]
           /\ executed' = IF _is_sql_query(cmd) THEN Append(executed, cmd)
                          ELSE executed
           /\ db_tables' = IF _is_sql_query(cmd) THEN res.tables ELSE db_tables
    /\ UNCHANGED <<fleetVars, started, regVars, db_views, authVars, lifeVars>>


(***************************************************************************)
(* MyStreamingExchanger.exchange_f                                         *)
(***************************************************************************)
\* sum(batch.num_rows for batch in batches)
RECURSIVE SumSeq(_)
SumSeq(q) == IF q = << >> THEN 0 ELSE Head(q) + SumSeq(Tail(q))

\* A faulty loop, which begins the output stream when it keeps its first
\* chunk.
ReadChunkStreaming(c) ==
    /\ calls[c].pc = "read_chunk"
    /\ \/ calls' = [calls EXCEPT ![c] =
              Finish([calls[c] EXCEPT !.read_error = TRUE,
                          !.writer = [NoWriter EXCEPT !.begun = 1, !.closed = 1]],
                     "none")]
       \/ calls' = [calls EXCEPT ![c] =
              IF calls[c].reader = << >>
              THEN [calls[c] EXCEPT !.pc = "transform"]
              ELSE IF Head(calls[c].reader) = 0
              THEN [calls[c] EXCEPT !.pc = "transform"]
              ELSE [calls[c] EXCEPT !.reader = Tail(@),
                        !.all_incoming = Append(@, Head(calls[c].reader)),
                        !.writer = [NoWriter EXCEPT !.begun = 1,
                                       !.schema = calls[c].schema]]]
    /\ UNCHANGED <<fleetVars, started, regVars, dbVars, authVars, lifeVars>>

\* One pass of the `while True` loop: reader.read_chunk(), then either
\* `break` (a chunk of zero rows, or StopIteration), or append the chunk.
\* Any other exception of the read is caught: an empty schema is written,
\* the writer is closed and exchange_f returns.
ReadChunk(c) ==
    /\ calls[c].pc = "read_chunk"
    /\ \/ calls' = [calls EXCEPT ![c] =
              Finish([calls[c] EXCEPT !.read_error = TRUE,
                          !.writer = [NoWriter EXCEPT !.begun = 1, !.closed = 1]],
                     "none")]
       \/ calls' = [calls EXCEPT ![c] =
              IF calls[c].reader = << >>
              THEN [calls[c] EXCEPT !.pc = "transform"]
              ELSE IF Head(calls[c].reader) = 0
              THEN [calls[c] EXCEPT !.pc = "transform"]
              ELSE [calls[c] EXCEPT !.reader = Tail(@),
                        !.all_incoming = Append(@, Head(calls[c].reader))]]
    /\ UNCHANGED <<fleetVars, started, regVars, dbVars, authVars, lifeVars>>

\* What exchange_f writes once the loop has ended: an empty schema when
\* all_incoming is empty; else table_in = pa.Table.from_batches(all_incoming),
\* processed_col = [True] * table_in.num_rows, table_out = table_in with the
\* column "processed" appended, sent batch by batch.
TransformOutput(schema, all_incoming) ==
    IF all_incoming = << >>
    THEN [NoWriter EXCEPT !.begun = 1, !.closed = 1]
    ELSE [begun |-> 1,
          schema |-> Append(schema, "processed"),
          batches |-> all_incoming,
          processed |-> [i \in 1..SumSeq(all_incoming) |-> TRUE],
          closed |-> 1]

Transform(c) ==
    /\ calls[c].pc = "transform"
    /\ calls' = [calls EXCEPT ![c] =
           Finish([calls[c] EXCEPT !.writer =
                       TransformOutput(calls[c].schema, calls[c].all_incoming)],
                  "none")]
    /\ UNCHANGED <<fleetVars, started, regVars, dbVars, authVars, lifeVars>>

\* The rest of exchange_f with a writer that raises in begin or
\* write_batch (the caller has gone away): exchange_f ends by that
\* exception, the stream begun and not closed.
TransformRaises(c) ==
    /\ calls[c].pc = "transform"
    /\ calls' = [calls EXCEPT ![c] =
           Finish([calls[c] EXCEPT !.writer = [NoWriter EXCEPT !.begun = 1]],
                  "FlightError")]
    /\ UNCHANGED <<fleetVars, started, regVars, dbVars, authVars, lifeVars>>

(***************************************************************************)
(* do_get                                                                  *)
(***************************************************************************)
Whitespace == {" ", "\t", "\n", "\r"}

\* str.strip()
Strip(text) ==
    LET idx == { i \in 1..Len(text) : text[i] \notin Whitespace }
    IN  IF idx = {} THEN << >>
        ELSE SubSeq(text, CHOOSE i \in idx : \A j \in idx : i <= j, Max(idx))

\* DuckDBFlightServer._is_ddl_statement
_is_ddl_statement(query) ==
    \E kw \in { <<"C","R","E","A","T","E">>, <<"D","R","O","P">>,
                 <<"A","L","T","E","R">> } :
        StartsWith(Upper(Strip(query)), kw)

\* flight.RecordBatchStream(pa.table({"status": ["OK"]}))
StatusStream == [present |-> TRUE, schema |-> <<"status">>, batches |-> <<1>>]

\* do_get: _is_ddl_statement, then _handle_ddl_statement
\* (self.db_conn.execute(query) and the status table) or
\* self.db_conn.sql(query).fetch_arrow_table() and its stream
DoGet(c) ==
    /\ calls[c].pc = "do_get"
    /\ LET query == calls[c].command
           res == EngineSql(query)
           rec == [calls[c] EXCEPT !.ran = <<query>>]
       IN  /\ calls' = [calls EXCEPT ![c] =
                 IF ~res.ok
                 THEN Finish(rec, "EngineError")
                 ELSE IF _is_ddl_statement(query)
                 THEN Finish([rec EXCEPT !.path = "ddl",
                                         !.returned = StatusStream], "none")
                 ELSE IF res.has_result
                 THEN Finish([rec EXCEPT !.path = "sql",
                                  !.returned = [present |-> TRUE,
                                                schema |-> res.schema,
                                                batches |-> res.batches]],
                             "none")
                 ELSE Finish([rec EXCEPT !.path = "sql"], "AttributeError")]
           /\ executed' = Append(executed, query)
           /\ db_tables' = res.tables
    /\ UNCHANGED <<fleetVars, started, regVars, db_views, authVars, lifeVars>>

(***************************************************************************)
(* do_action and _handle_add_exchange                                      *)
(***************************************************************************)
\* A faulty do_action, which takes every action type for add_exchange.
DoActionAnyType(c) ==
    /\ calls[c].pc = "do_action"
    /\ calls' = [calls EXCEPT ![c] =
           IF calls[c].payload.kind # "class"
           THEN Finish(calls[c], "TypeError")
           ELSE IF ~calls[c].payload.subclass
           THEN Finish(calls[c], "ValueError")
           ELSE [calls[c] EXCEPT !.pc = "add_exchange",
                     !.exchanger = Instantiate(calls[c].payload),
                     !.command = Instantiate(calls[c].payload).command]]
    /\ UNCHANGED <<fleetVars, started, regVars, dbVars, authVars, lifeVars>>

\* do_action: the action type is matched against AddExchangeAction.name;
\* then _handle_add_exchange loads the payload, checks
\* issubclass(exchanger_class, AbstractExchanger) (a TypeError when the
\* payload is no class, a ValueError when it is no subclass), instantiates
\* it and reads its command.
DoAction(c) ==
    /\ calls[c].pc = "do_action"
    /\ calls' = [calls EXCEPT ![c] =
           IF calls[c].atype # AddExchangeAction_name
           THEN Finish(calls[c], "FlightServerError")
           ELSE IF calls[c].payload.kind # "class"
           THEN Finish(calls[c], "TypeError")
           ELSE IF ~calls[c].payload.subclass
           THEN Finish(calls[c], "ValueError")
           ELSE [calls[c] EXCEPT !.pc = "add_exchange",
                     !.exchanger = Instantiate(calls[c].payload),
                     !.command = Instantiate(calls[c].payload).command]]
    /\ UNCHANGED <<fleetVars, started, regVars, dbVars, authVars, lifeVars>>

\* _handle_add_exchange, `self.exchangers[command] = exchanger_instance`
AddExchange(c) ==
    /\ calls[c].pc = "add_exchange"
    /\ LET inst == [calls[c].exchanger EXCEPT !.reg = Len(regLog) + 1]
       IN  /\ exchangers' = SetItem(exchangers, calls[c].command, inst)
           /\ regLog' = Append(regLog, inst)
           /\ calls' = [calls EXCEPT ![c].pc = "add_return",
                                     ![c].stored = TRUE,
                                     ![c].exchanger = inst]
    /\ UNCHANGED <<fleetVars, started, default_pending, returnedRegs, dbVars, authVars,
                   lifeVars>>

\* _handle_add_exchange, `return [flight.Result(...)]`
AddReturn(c) ==
    /\ calls[c].pc = "add_return"
    /\ calls' = [calls EXCEPT ![c] = Finish(calls[c], "none")]
    /\ returnedRegs' = returnedRegs \cup {calls[c].exchanger}
    /\ UNCHANGED <<fleetVars, started, exchangers, default_pending, regLog, dbVars,
                   authVars, lifeVars>>

\* The default exchanger is registered by DuckDBFlightServer.__init__
\* (_register_default_exchangers, src/flight_server.py) or, in
\* src/flight/flight_server.py, by ServerManager._register_default_exchangers
\* after server.serve() has started the serving thread.
RegisterDefaultExchangers ==
    /\ default_pending
    /\ LET inst == [MyStreamingExchanger EXCEPT !.reg = Len(regLog) + 1]
       IN  /\ exchangers' = SetItem(exchangers, inst.command, inst)
           /\ regLog' = Append(regLog, inst)
           /\ returnedRegs' = returnedRegs \cup {inst}
    /\ default_pending' = FALSE
    /\ UNCHANGED <<fleetVars, dbVars, authVars, lifeVars, callVars>>


(***************************************************************************)
(* do_put and _insert_table                                                *)
(***************************************************************************)
\* f"temp_{table_name}"
TempName(table_name) == <<"temp_", table_name>>

\* A faulty loop, which stops reading at the first batch of zero rows.
PutReadChunkStopAtEmpty(c) ==
    /\ calls[c].pc = "do_put"
    /\ calls' = [calls EXCEPT ![c] =
           IF calls[c].reader = << >> \/ Head(calls[c].reader) = 0
           THEN [calls[c] EXCEPT !.pc = "insert_table"]
           ELSE [calls[c] EXCEPT !.reader = Tail(@),
                     !.all_incoming = Append(@, Head(calls[c].reader))]]
    /\ UNCHANGED <<fleetVars, started, regVars, dbVars, authVars, lifeVars>>

\* A faulty loop, which inserts each batch with rows as soon as it is read.
PutReadChunkInsertEach(c) ==
    /\ calls[c].pc = "do_put"
    /\ \/ /\ calls' = [calls EXCEPT ![c] =
                 Finish([calls[c] EXCEPT !.read_error = TRUE], "FlightError")]
          /\ UNCHANGED db_tables
       \/ /\ calls[c].reader = << >>
          /\ calls' = [calls EXCEPT ![c] = Finish(calls[c], "none")]
          /\ UNCHANGED db_tables
       \/ /\ calls[c].reader # << >>
          /\ calls' = [calls EXCEPT ![c].reader = Tail(@)]
          /\ LET t == calls[c].command
                 n == Head(calls[c].reader)
                 had == IF t \in DOMAIN db_tables THEN db_tables[t].rows ELSE 0
             IN  db_tables' =
                     IF n = 0 THEN db_tables
                     ELSE SetItem(db_tables, t,
                              [cols |-> Len(calls[c].schema), rows |-> had + n])
    /\ UNCHANGED <<fleetVars, started, regVars, executed, db_views, authVars, lifeVars>>

\* One pass of do_put's `while True` loop: reader.read_chunk(), the batch is
\* kept when it has rows, StopIteration ends the loop; any other exception
\* of the read leaves do_put.
PutReadChunk(c) ==
    /\ calls[c].pc = "do_put"
    /\ \/ calls' = [calls EXCEPT ![c] =
              Finish([calls[c] EXCEPT !.read_error = TRUE], "FlightError")]
       \/ calls' = [calls EXCEPT ![c] =
              IF calls[c].reader = << >>
              THEN [calls[c] EXCEPT !.pc = "insert_table"]
              ELSE IF Head(calls[c].reader) > 0
              THEN [calls[c] EXCEPT !.reader = Tail(@),
                        !.all_incoming = Append(@, Head(calls[c].reader))]
              ELSE [calls[c] EXCEPT !.reader = Tail(@)]]
    /\ UNCHANGED <<fleetVars, started, regVars, dbVars, authVars, lifeVars>>

\* do_put after the loop: return when no batch was kept; else
\* table = pa.Table.from_batches(batches) and _insert_table's
\* self.db_conn.register(temp_name, table)
InsertTable(c) ==
    /\ calls[c].pc = "insert_table"
    /\ IF calls[c].all_incoming = << >>
       THEN /\ calls' = [calls EXCEPT ![c] = Finish(calls[c], "none")]
            /\ UNCHANGED db_views
       ELSE IF ~db_open
       THEN /\ calls' = [calls EXCEPT ![c] = Finish(calls[c], "EngineError")]
            /\ UNCHANGED db_views
       ELSE /\ calls' = [calls EXCEPT ![c].pc = "execute"]
            /\ db_views' = SetItem(db_views, TempName(calls[c].command),
                                   [cols |-> Len(calls[c].schema),
                                    rows |-> SumSeq(calls[c].all_incoming)])
    /\ UNCHANGED <<fleetVars, started, regVars, executed, db_tables, authVars, lifeVars>>

\* The two statements of _insert_table on the catalog:
\*   CREATE TABLE IF NOT EXISTS t AS SELECT * FROM temp_t LIMIT 0;
\*   INSERT INTO t SELECT * FROM temp_t;
\* DuckDB runs them in order, each in its own transaction; the INSERT is
\* rejected when the relation's column count differs from the table's.
CreateIfNotExists(tables, t, rel) ==
    IF t \in DOMAIN tables THEN tables
    ELSE SetItem(tables, t, [cols |-> rel.cols, rows |-> 0])

InsertAccepted(tables, t, rel) == tables[t].cols = rel.cols

InsertInto(tables, t, rel) ==
    [tables EXCEPT ![t].rows = @ + rel.rows]

\* _insert_table, `self.db_conn.execute(...)`
Execute(c) ==
    /\ calls[c].pc = "execute"
    /\ LET t == calls[c].command
           temp == TempName(t)
       IN  IF ~db_open \/ temp \notin DOMAIN db_views
           THEN /\ calls' = [calls EXCEPT ![c] = Finish(calls[c], "EngineError")]
                /\ UNCHANGED <<executed, db_tables>>
           ELSE LET rel == db_views[temp]
                    created == CreateIfNotExists(db_tables, t, rel)
                IN  /\ executed' = Append(executed, <<"insert", t>>)
                    /\ IF InsertAccepted(created, t, rel)
                       THEN /\ db_tables' = InsertInto(created, t, rel)
                            /\ calls' = [calls EXCEPT ![c].pc = "unregister",
                                                      ![c].ran = <<"insert">>]
                       ELSE /\ db_tables' = created
                            /\ calls' = [calls EXCEPT ![c] =
                                   Finish([calls[c] EXCEPT !.ran = <<"insert">>],
                                          "EngineError")]
    /\ UNCHANGED <<fleetVars, started, regVars, db_views, authVars, lifeVars>>

\* _insert_table, `self.db_conn.unregister(temp_name)`
Unregister(c) ==
    /\ calls[c].pc = "unregister"
    /\ IF db_open
       THEN /\ db_views' = DelItem(db_views, TempName(calls[c].command))
            /\ calls' = [calls EXCEPT ![c] = Finish(calls[c], "none")]
       ELSE /\ UNCHANGED db_views
            /\ calls' = [calls EXCEPT ![c] = Finish(calls[c], "EngineError")]
    /\ UNCHANGED <<fleetVars, started, regVars, executed, db_tables, authVars, lifeVars>>

(***************************************************************************)
(* AuthMiddlewareFactory                                                   *)
(***************************************************************************)
\* str.partition(sep): the text before the first sep and the text after it
\* (all of the text and "" when there is no sep)
Partition(text, sep) ==
    IF \E i \in 1..Len(text) : text[i] = sep
    THEN LET i == CHOOSE j \in 1..Len(text) :
                     /\ text[j] = sep
                     /\ \A k \in 1..(j - 1) : text[k] # sep
         IN  [before |-> SubSeq(text, 1, i - 1),
              after |-> SubSeq(text, i + 1, Len(text))]
    ELSE [before |-> text, after |-> << >>]

\* base64.b64decode(value).decode("utf-8"): the header value is carried
\* here as the text it encodes, or as bytes that do not decode
B64Decode(value) ==
    IF value.encoding = "base64"
    THEN [ok |-> TRUE, text |-> value.text]
    ELSE [ok |-> FALSE, text |-> << >>]

\* _handle_basic_auth up to the token: whether the decoded value names a
\* user of self.credentials with that user's password (dict.get gives None
\* for an unknown user, which equals no password)
BasicAuthAccepts(value) ==
    /\ B64Decode(value).ok
    /\ LET decoded == Partition(B64Decode(value).text, ":")
       IN  /\ decoded.before \in DOMAIN credentials
           /\ decoded.after = credentials[decoded.before]

\* _handle_token_auth: self.tokens.get(token) is not None
TokenAuthAccepts(token) == token \in DOMAIN tokens

\* secrets.token_urlsafe(32): a token no earlier call of it returned
FreshToken == issued + 1

\* A faulty start_call, whose table keeps the latest token only.
StartCallSingleSession(c) ==
    /\ calls[c].pc = "start_call"
    /\ LET h == calls[c].header
           reject == [calls EXCEPT ![c] =
                         Finish(calls[c], "FlightUnauthenticatedError")]
           accept == [calls EXCEPT ![c].pc = calls[c].verb]
       IN  IF h.scheme = "none" \/ h.scheme = ""
           THEN calls' = reject /\ UNCHANGED <<tokens, issued>>
           ELSE IF h.scheme = "Basic"
           THEN IF BasicAuthAccepts(h.value)
                THEN /\ calls' = accept
                     /\ tokens' = SetItem(EmptyDict, FreshToken,
                                     Partition(B64Decode(h.value).text, ":").before)
                     /\ issued' = issued + 1
                ELSE calls' = reject /\ UNCHANGED <<tokens, issued>>
           ELSE IF h.scheme = "Bearer"
           THEN /\ calls' = IF TokenAuthAccepts(h.value) THEN accept ELSE reject
                /\ UNCHANGED <<tokens, issued>>
           ELSE calls' = reject /\ UNCHANGED <<tokens, issued>>
    /\ UNCHANGED <<fleetVars, started, regVars, dbVars, auth_enabled,
                   config_credentials, credentials, lifeVars>>

\* A faulty start_call, which records a token for a username/secret pair
\* it rejects.
StartCallRecordsRejected(c) ==
    /\ calls[c].pc = "start_call"
    /\ LET h == calls[c].header
           reject == [calls EXCEPT ![c] =
                         Finish(calls[c], "FlightUnauthenticatedError")]
           accept == [calls EXCEPT ![c].pc = calls[c].verb]
       IN  IF h.scheme = "none" \/ h.scheme = ""
           THEN calls' = reject /\ UNCHANGED <<tokens, issued>>
           ELSE IF h.scheme = "Basic"
           THEN /\ calls' = IF BasicAuthAccepts(h.value) THEN accept ELSE reject
                /\ tokens' = SetItem(tokens, FreshToken,
                                Partition(B64Decode(h.value).text, ":").before)
                /\ issued' = issued + 1
           ELSE IF h.scheme = "Bearer"
           THEN /\ calls' = IF TokenAuthAccepts(h.value) THEN accept ELSE reject
                /\ UNCHANGED <<tokens, issued>>
           ELSE calls' = reject /\ UNCHANGED <<tokens, issued>>
    /\ UNCHANGED <<fleetVars, started, regVars, dbVars, auth_enabled,
                   config_credentials, credentials, lifeVars>>

\* start_call, as a transport that holds the factory runs it before the
\* verb's handler; FlightUnauthenticatedError ends the call there.
StartCall(c) ==
    /\ calls[c].pc = "start_call"
    /\ LET h == calls[c].header
           reject == [calls EXCEPT ![c] =
                         Finish(calls[c], "FlightUnauthenticatedError")]
           accept == [calls EXCEPT ![c].pc = calls[c].verb]
       IN  IF h.scheme = "none" \/ h.scheme = ""
           THEN calls' = reject /\ UNCHANGED <<tokens, issued>>
           ELSE IF h.scheme = "Basic"
           THEN IF BasicAuthAccepts(h.value)
                THEN /\ calls' = accept
                     /\ tokens' = SetItem(tokens, FreshToken,
                                     Partition(B64Decode(h.value).text, ":").before)
                     /\ issued' = issued + 1
                ELSE calls' = reject /\ UNCHANGED <<tokens, issued>>
           ELSE IF h.scheme = "Bearer"
           THEN /\ calls' = IF TokenAuthAccepts(h.value) THEN accept ELSE reject
                /\ UNCHANGED <<tokens, issued>>
           ELSE calls' = reject /\ UNCHANGED <<tokens, issued>>
    /\ UNCHANGED <<fleetVars, started, regVars, dbVars, auth_enabled,
                   config_credentials, credentials, lifeVars>>

(***************************************************************************)
(* DuckDBFlightServer.shutdown                                             *)
(***************************************************************************)
\* A thread calls server.shutdown(): `if not self._shutdown_requested`
ShutdownCheck(c) ==
    /\ calls[c].pc = "shutdown"
    /\ calls' = [calls EXCEPT ![c] =
           IF shutdown_requested THEN Finish(calls[c], "none")
           ELSE [calls[c] EXCEPT !.pc = "set_requested"]]
    /\ UNCHANGED <<fleetVars, started, regVars, dbVars, authVars, lifeVars>>

\* A faulty shutdown, which empties the registry as it begins.
ShutdownSetRequestedClearsRegistry(c) ==
    /\ calls[c].pc = "set_requested"
    /\ shutdown_requested' = TRUE
    /\ exchangers' = EmptyDict
    /\ calls' = [calls EXCEPT ![c].pc = "super_shutdown"]
    /\ UNCHANGED <<fleetVars, started, default_pending, regLog, returnedRegs,
                   dbVars, authVars, serving, db_open, transport_stops,
                   db_closes>>

\* shutdown, `self._shutdown_requested = True`
ShutdownSetRequested(c) ==
    /\ calls[c].pc = "set_requested"
    /\ shutdown_requested' = TRUE
    /\ calls' = [calls EXCEPT ![c].pc = "super_shutdown"]
    /\ UNCHANGED <<fleetVars, started, regVars, dbVars, authVars, serving, db_open,
                   transport_stops, db_closes>>

\* shutdown, `super().shutdown()`: the transport stops, or the call raises
\* and the exception leaves shutdown()
SuperShutdown(c) ==
    /\ calls[c].pc = "super_shutdown"
    /\ transport_stops' = transport_stops + 1
    /\ \/ /\ serving' = FALSE
          /\ calls' = [calls EXCEPT ![c].pc = "close"]
       \/ /\ UNCHANGED serving
          /\ calls' = [calls EXCEPT ![c] = Finish(calls[c], "FlightError")]
    /\ UNCHANGED <<fleetVars, started, regVars, dbVars, authVars, shutdown_requested,
                   db_open, db_closes>>

\* A faulty close, whose error leaves shutdown().
CloseDatabaseRaises(c) ==
    /\ calls[c].pc = "close"
    /\ db_closes' = db_closes + 1
    /\ \/ /\ db_open' = FALSE
          /\ calls' = [calls EXCEPT ![c] = Finish(calls[c], "none")]
       \/ /\ UNCHANGED db_open
          /\ calls' = [calls EXCEPT ![c] = Finish(calls[c], "EngineError")]
    /\ UNCHANGED <<fleetVars, started, regVars, dbVars, authVars, shutdown_requested,
                   serving, transport_stops>>

\* shutdown, `self.database_manager.close()` inside try/except: the
\* connection closes, or the error is logged and shutdown returns
CloseDatabase(c) ==
    /\ calls[c].pc = "close"
    /\ db_closes' = db_closes + 1
    /\ \/ db_open' = FALSE
       \/ UNCHANGED db_open
    /\ calls' = [calls EXCEPT ![c] = Finish(calls[c], "none")]
    /\ UNCHANGED <<fleetVars, started, regVars, dbVars, authVars, shutdown_requested,
                   serving, transport_stops>>

(***************************************************************************)
(* FlightServerManager (ServerManager in src/flight/flight_server.py): the *)
(* thread that runs start_servers, the wait of main and shutdown_servers,  *)
(* and the serving thread of each server it starts.                        *)
(***************************************************************************)
\* self.configs, by position
Instances == 1..MaxInstances

\* a config whose server has not been constructed
NoInstance ==
    [transport |-> "none",           \* FlightServerBase: none, listening, stopped
     db |-> "none",                  \* the DuckDB connection: none, open, closed
     probed |-> FALSE,               \* "SELECT 1" has run on the connection
     has_default |-> FALSE,          \* the default exchanger is in self.exchangers
     exchangers |-> EmptyDict,       \* self.exchangers
     add_calls |-> 0,                \* history: add_exchange actions handled
     thread |-> "none",              \* the serving thread: none, alive, exited
     inflight |-> FALSE,             \* a call is in progress on the transport
     shutdown_requested |-> FALSE,   \* self._shutdown_requested
     stopped |-> FALSE,              \* shutdown() has run to its end
     shutdown_calls |-> 0,           \* history: calls of shutdown()
     checks_passed |-> 0,            \* history: calls that found the flag unset
     transport_stops |-> 0,          \* history: calls of super().shutdown()
     db_closes |-> 0,                \* history: calls of the connection's close()
     warned |-> FALSE,               \* history: "did not exit in time" was logged
     error_logged |-> FALSE]         \* history: "Error shutting down" was logged

\* the manager's thread before main calls start_servers
IdleManager ==
    [pc |-> "main",
     idx |-> 0,                      \* position in self.configs or running_servers
     ret |-> "none",                 \* where shutdown_servers returns to
     runs |-> 0,                     \* history: shutdown_servers calls begun
     failed |-> 0,                   \* history: the config whose start raised
     handlers |-> FALSE,             \* _register_signal_handlers has run
     installs |-> 0,                 \* history: runs of _register_signal_handlers
     signals |-> 0,                  \* history: signals handled
     called |-> << >>]               \* history: servers shutdown() was called on
                                     \* in the current shutdown_servers

FleetIdle ==
    /\ instances = [i \in Instances |-> NoInstance]
    /\ manager = IdleManager
    /\ shutdown_event = FALSE
    /\ running_servers = << >>

\* the elements of a sequence
Range(q) == { q[k] : k \in 1..Len(q) }

\* how often x occurs in a sequence
Count(q, x) == Cardinality({ k \in 1..Len(q) : q[k] = x })

\* start_servers: `for config in self.configs`
StartServers ==
    /\ manager.pc = "main"
    /\ manager' = [manager EXCEPT !.pc = "start_server", !.idx = 1]
    /\ UNCHANGED <<serverVars, variant, instances, shutdown_event, running_servers>>

\* _start_server raises.  In src/flight_server.py nothing catches it in
\* start_servers; in src/flight/flight_server.py start_servers calls
\* self.shutdown_servers() and raises again.
StartFailure(mgr) ==
    IF variant = "flight"
    THEN [mgr EXCEPT !.pc = "set_event", !.ret = "start_failed",
                     !.failed = mgr.idx]
    ELSE [mgr EXCEPT !.pc = "start_failed", !.failed = mgr.idx]

\* DuckDBFlightServer.__init__, `super().__init__(config.location)`: the
\* transport binds its location and listens, or raises
ConstructTransport ==
    /\ manager.pc = "start_server"
    /\ \/ /\ instances' = [instances EXCEPT ![manager.idx].transport = "listening"]
          /\ manager' = [manager EXCEPT !.pc = "init_database"]
       \/ /\ UNCHANGED instances
          /\ manager' = StartFailure(manager)
    /\ UNCHANGED <<serverVars, variant, shutdown_event, running_servers>>

\* The rest of DuckDBFlightServer.__init__.  src/flight_server.py:
\* DatabaseManager(config.db_path) connects, then the default exchanger is
\* registered.  src/flight/flight_server.py: _initialize_database connects
\* and runs "SELECT 1"; self.exchangers stays empty.  A failure of the
\* connect or of the probe raises out of the constructor.
InitializeDatabase ==
    /\ manager.pc = "init_database"
    /\ LET i == manager.idx
       IN  \/ /\ instances' = [instances EXCEPT
                     ![i].db = "open",
                     ![i].probed = (variant = "flight"),
                     ![i].has_default = (variant = "root"),
                     ![i].exchangers =
                         IF variant = "root"
                         THEN SetItem(EmptyDict, MyStreamingExchanger_command,
                                      MyStreamingExchanger)
                         ELSE EmptyDict]
              /\ manager' = [manager EXCEPT !.pc = "serve"]
           \/ /\ UNCHANGED instances
              /\ manager' = StartFailure(manager)
           \/ /\ variant = "flight"
              /\ instances' = [instances EXCEPT ![i].db = "open"]
              /\ manager' = StartFailure(manager)
    /\ UNCHANGED <<serverVars, variant, shutdown_event, running_servers>>

\* A faulty start_servers, which registers the signal handlers inside its
\* loop, after each server it has started.
NextConfigHandlersFirst(mgr) ==
    IF mgr.idx < MaxInstances
    THEN [mgr EXCEPT !.pc = "start_server", !.idx = mgr.idx + 1,
                     !.handlers = TRUE, !.installs = @ + 1]
    ELSE [mgr EXCEPT !.pc = "main_wait", !.idx = 0,
                     !.handlers = TRUE, !.installs = @ + 1]

\* what follows a server's start: the next config, or the end of
\* start_servers (the signal handlers are registered) and main's wait
NextConfig(mgr) ==
    IF mgr.idx < MaxInstances
    THEN [mgr EXCEPT !.pc = "start_server", !.idx = mgr.idx + 1]
    ELSE [mgr EXCEPT !.pc = "main_wait", !.idx = 0,
                     !.handlers = TRUE, !.installs = @ + 1]

\* _start_server, `server_thread = server.serve()` and
\* `self.running_servers.append((server, server_thread))`
Serve ==
    /\ manager.pc = "serve"
    /\ instances' = [instances EXCEPT ![manager.idx].thread = "alive"]
    /\ running_servers' = Append(running_servers, manager.idx)
    /\ manager' = IF variant = "flight"
                  THEN [manager EXCEPT !.pc = "register_default"]
                  ELSE NextConfig(manager)
    /\ UNCHANGED <<serverVars, variant, shutdown_event>>

\* ServerManager._start_server, `self._register_default_exchangers(server)`
RegisterDefault ==
    /\ manager.pc = "register_default"
    /\ instances' = [instances EXCEPT
           ![manager.idx].has_default = TRUE,
           ![manager.idx].exchangers =
               SetItem(@, MyStreamingExchanger_command, MyStreamingExchanger)]
    /\ manager' = NextConfig(manager)
    /\ UNCHANGED <<serverVars, variant, shutdown_event, running_servers>>

\* An add_exchange action with a class that is not a subclass, or with
\* no class, raises out of do_action; otherwise _handle_add_exchange
\* stores an instance of the class under its command.
WithExchanger(registry, p) ==
    IF p.kind = "class" /\ p.subclass
    THEN SetItem(registry, Instantiate(p).command, Instantiate(p))
    ELSE registry

\* A faulty add_exchange, as if self.exchangers were one dictionary of the
\* class that every instance shares.
InstanceAddExchangeShared(i) ==
    /\ instances[i].transport = "listening"
    /\ started < MaxRegistrations
    /\ started' = started + 1
    /\ \E p \in Payloads :
          instances' = [j \in Instances |->
              IF j = i
              THEN [instances[j] EXCEPT
                       !.exchangers = WithExchanger(@, p),
                       !.add_calls = @ + 1]
              ELSE [instances[j] EXCEPT !.exchangers = WithExchanger(@, p)]]
    /\ UNCHANGED <<regVars, dbVars, authVars, lifeVars, calls, variant, manager,
                   shutdown_event, running_servers>>

\* do_action with AddExchangeAction.name and _handle_add_exchange on the
\* instance the client addressed
InstanceAddExchange(i) ==
    /\ instances[i].transport = "listening"
    /\ started < MaxRegistrations
    /\ started' = started + 1
    /\ \E p \in Payloads :
          instances' = [instances EXCEPT
              ![i].exchangers = WithExchanger(@, p),
              ![i].add_calls = @ + 1]
    /\ UNCHANGED <<regVars, dbVars, authVars, lifeVars, calls, variant, manager,
                   shutdown_event, running_servers>>

\* _serve_thread, self.wait() returns once the transport has stopped
ThreadExit(i) ==
    /\ instances[i].thread = "alive"
    /\ instances[i].transport = "stopped"
    /\ instances' = [instances EXCEPT ![i].thread = "exited"]
    /\ UNCHANGED <<serverVars, variant, manager, shutdown_event, running_servers>>

\* _serve_thread, self.wait() raises: the except branch sets the event
ThreadRaises(i) ==
    /\ instances[i].thread = "alive"
    /\ instances' = [instances EXCEPT ![i].thread = "exited"]
    /\ shutdown_event' = TRUE
    /\ UNCHANGED <<serverVars, variant, manager, running_servers>>

\* _serve_thread, self.wait() returns while no shutdown was asked for:
\* the thread function ends
ThreadReturns(i) ==
    /\ instances[i].thread = "alive"
    /\ instances[i].transport = "listening"
    /\ ~instances[i].shutdown_requested
    /\ instances' = [instances EXCEPT ![i].thread = "exited"]
    /\ UNCHANGED <<serverVars, variant, manager, shutdown_event, running_servers>>

\* A client's call reaches a handler of the server (do_exchange reading
\* its input stream, say) ...
CallBegins(i) ==
    /\ instances[i].thread = "alive"
    /\ instances[i].transport = "listening"
    /\ ~instances[i].inflight
    /\ instances' = [instances EXCEPT ![i].inflight = TRUE]
    /\ UNCHANGED <<serverVars, variant, manager, shutdown_event, running_servers>>

\* ... and ends when the handler returns, which a handler that reads the
\* client's stream does when the client closes it
CallEnds(i) ==
    /\ instances[i].inflight
    /\ instances' = [instances EXCEPT ![i].inflight = FALSE]
    /\ UNCHANGED <<serverVars, variant, manager, shutdown_event, running_servers>>

\* shutdown_servers is entered
EnterShutdownServers(mgr, ret) ==
    [mgr EXCEPT !.pc = "set_event", !.ret = ret]

\* main of src/flight_server.py: the wait loop ends when the event is set,
\* and `finally: manager.shutdown_servers()` runs then and when
\* start_servers has raised
MainFinally ==
    /\ variant = "root"
    /\ \/ manager.pc = "main_wait" /\ shutdown_event
       \/ manager.pc \in {"start_failed", "sys_exit"}
    /\ manager' = EnterShutdownServers(manager, "exited")
    /\ UNCHANGED <<serverVars, variant, instances, shutdown_event, running_servers>>

\* the __main__ block of src/flight/flight_server.py: the wait loop ends
\* when the event is set, and its finally clause tests _global_manager,
\* which is None, so the process ends without shutdown_servers
MainEnds ==
    /\ variant = "flight"
    /\ \/ manager.pc = "main_wait" /\ shutdown_event
       \/ manager.pc \in {"start_failed", "sys_exit"}
    /\ manager' = [manager EXCEPT !.pc = "exited"]
    /\ UNCHANGED <<serverVars, variant, instances, shutdown_event, running_servers>>

\* the positions of the manager's thread inside shutdown_servers
ShutdownPcs ==
    {"set_event", "shutdown_loop", "set_requested", "super_shutdown", "close",
     "join"}

\* _handle_shutdown_signal: self.shutdown_servers() and then sys.exit(0).
\* Python runs the handler in the main thread between two of its steps:
\* in main's wait, or inside a shutdown_servers already under way, which
\* the SystemExit of sys.exit(0) then leaves where it was interrupted.
HandleShutdownSignal ==
    /\ manager.handlers
    /\ manager.pc \in {"main_wait"} \cup ShutdownPcs
    /\ manager.signals < MaxSignals
    /\ manager' = [EnterShutdownServers(manager, "sys_exit") EXCEPT
                      !.signals = @ + 1]
    /\ UNCHANGED <<serverVars, variant, instances, shutdown_event, running_servers>>

\* shutdown_servers, `self.shutdown_event.set()`
SetShutdownEvent ==
    /\ manager.pc = "set_event"
    /\ shutdown_event' = TRUE
    /\ manager' = [manager EXCEPT !.pc = "shutdown_loop", !.idx = 1,
                                  !.runs = @ + 1, !.called = << >>]
    /\ UNCHANGED <<serverVars, variant, instances, running_servers>>

\* the server and thread the loop of shutdown_servers is at
Current == running_servers[manager.idx]

\* A faulty shutdown(), which does not test self._shutdown_requested.
InstanceShutdownUnguarded ==
    /\ manager.pc = "shutdown_loop"
    /\ manager.idx <= Len(running_servers)
    /\ instances' = [instances EXCEPT
           ![Current].shutdown_calls = @ + 1,
           ![Current].checks_passed = @ + 1]
    /\ manager' = [manager EXCEPT
           !.pc = "set_requested",
           !.called = Append(@, Current)]
    /\ UNCHANGED <<serverVars, variant, shutdown_event, running_servers>>

\* shutdown_servers, `for server, thread in self.running_servers` and the
\* start of server.shutdown(): `if not self._shutdown_requested`
InstanceShutdown ==
    /\ manager.pc = "shutdown_loop"
    /\ manager.idx <= Len(running_servers)
    /\ instances' = [instances EXCEPT
           ![Current].shutdown_calls = @ + 1,
           ![Current].checks_passed =
               IF instances[Current].shutdown_requested THEN @ ELSE @ + 1]
    /\ manager' = [manager EXCEPT
           !.pc = IF instances[Current].shutdown_requested
                  THEN "join" ELSE "set_requested",
           !.called = Append(@, Current)]
    /\ UNCHANGED <<serverVars, variant, shutdown_event, running_servers>>

\* server.shutdown(), `self._shutdown_requested = True`
InstanceShutdownSet ==
    /\ manager.pc = "set_requested"
    /\ instances' = [instances EXCEPT ![Current].shutdown_requested = TRUE]
    /\ manager' = [manager EXCEPT !.pc = "super_shutdown"]
    /\ UNCHANGED <<serverVars, variant, shutdown_event, running_servers>>

\* A transport stop whose error leaves shutdown_servers.
InstanceSuperShutdownPropagates ==
    /\ manager.pc = "super_shutdown"
    /\ \/ /\ ~instances[Current].inflight
          /\ instances' = [instances EXCEPT
                 ![Current].transport_stops = @ + 1,
                 ![Current].transport = "stopped"]
          /\ manager' = [manager EXCEPT !.pc = "close"]
       \/ /\ instances' = [instances EXCEPT
                 ![Current].transport_stops = @ + 1]
          /\ manager' = [manager EXCEPT !.pc = manager.ret, !.ret = "none",
                                        !.idx = 0]
    /\ UNCHANGED <<serverVars, variant, shutdown_event, running_servers>>

\* server.shutdown(), `super().shutdown()`: FlightServerBase.shutdown
\* blocks until the calls in progress have finished and then stops the
\* transport, or it raises into the except branch of shutdown_servers,
\* which logs the error and goes on with the next server
InstanceSuperShutdown ==
    /\ manager.pc = "super_shutdown"
    /\ \/ /\ ~instances[Current].inflight
          /\ instances' = [instances EXCEPT
                 ![Current].transport_stops = @ + 1,
                 ![Current].transport = "stopped"]
          /\ manager' = [manager EXCEPT !.pc = "close"]
       \/ /\ instances' = [instances EXCEPT
                 ![Current].transport_stops = @ + 1,
                 ![Current].error_logged = TRUE]
          /\ manager' = [manager EXCEPT !.pc = "shutdown_loop", !.idx = @ + 1]
    /\ UNCHANGED <<serverVars, variant, shutdown_event, running_servers>>

\* A shutdown() that ends without a close of the connection.
InstanceCloseSkipped ==
    /\ manager.pc = "close"
    /\ instances' = [instances EXCEPT ![Current].stopped = TRUE]
    /\ manager' = [manager EXCEPT !.pc = "join"]
    /\ UNCHANGED <<serverVars, variant, shutdown_event, running_servers>>

\* server.shutdown(), the close of the connection inside try/except: it
\* closes, or the error is logged; shutdown() then runs to its end
\* (src/flight/flight_server.py sets self._running = False)
InstanceClose ==
    /\ manager.pc = "close"
    /\ \/ instances' = [instances EXCEPT
              ![Current].db_closes = @ + 1,
              ![Current].db = "closed",
              ![Current].stopped = TRUE]
       \/ instances' = [instances EXCEPT
              ![Current].db_closes = @ + 1,
              ![Current].stopped = TRUE]
    /\ manager' = [manager EXCEPT !.pc = "join"]
    /\ UNCHANGED <<serverVars, variant, shutdown_event, running_servers>>

\* shutdown_servers, `thread.join(timeout=5)` and `if thread.is_alive()`:
\* the join returns when the thread has ended or the timeout has passed,
\* and a thread still alive is logged as a warning
Join ==
    /\ manager.pc = "join"
    /\ instances' = [instances EXCEPT
           ![Current].warned = @ \/ (instances[Current].thread = "alive")]
    /\ manager' = [manager EXCEPT !.pc = "shutdown_loop", !.idx = @ + 1]
    /\ UNCHANGED <<serverVars, variant, shutdown_event, running_servers>>

\* A clear that does not wait for the end of the loop.
ClearEarly ==
    /\ manager.pc = "shutdown_loop"
    /\ running_servers' = << >>
    /\ manager' = [manager EXCEPT !.pc = manager.ret, !.ret = "none", !.idx = 0]
    /\ UNCHANGED <<serverVars, variant, instances, shutdown_event>>

\* shutdown_servers, `self.running_servers.clear()` and the return
Clear ==
    /\ manager.pc = "shutdown_loop"
    /\ manager.idx > Len(running_servers)
    /\ running_servers' = << >>
    /\ manager' = [manager EXCEPT !.pc = manager.ret, !.ret = "none", !.idx = 0]
    /\ UNCHANGED <<serverVars, variant, instances, shutdown_event>>

(***************************************************************************)
(* The server after construction, and its clients.                         *)
(***************************************************************************)
\* FlightServerConfig.__init__: credentials or {"admin": "password123"}
Admin == <<"a","d","m","i","n">>
Password123 == <<"p","a","s","s","w","o","r","d","1","2","3">>
DefaultCredentials == [u \in {Admin} |-> Password123]

\* the credentials argument: None (not given), or a dict of user -> secret
NoCredentials == [u \in {} |-> << >>]
CredentialsNone == [given |-> FALSE, dict |-> NoCredentials]
CredentialsDict(d) == [given |-> TRUE, dict |-> d]

\* self.credentials = credentials or {"admin": "password123"}: None and the
\* empty dict are both false
ConfigCredentials(arg) ==
    IF arg.given /\ DOMAIN arg.dict # {} THEN arg.dict ELSE DefaultCredentials

\* the state after construction from a config built with the credentials
\* argument arg, but for the registry
InitServerWith(auth, arg) ==
    /\ executed = << >>
    /\ db_tables = EmptyDict
    /\ db_views = EmptyDict
    /\ auth_enabled = auth
    /\ config_credentials = arg
    /\ credentials = ConfigCredentials(arg)
    /\ tokens = [t \in {} |-> "none"]
    /\ issued = 0
    /\ shutdown_requested = FALSE
    /\ serving = TRUE
    /\ db_open = TRUE
    /\ transport_stops = 0
    /\ db_closes = 0
    /\ calls = [c \in Calls |-> Idle]
    /\ started = 0

\* the state every specification starts from, but for the registry: the
\* config was built without a credentials argument
InitServer(auth) == InitServerWith(auth, CredentialsNone)

\* DuckDBFlightServer.__init__: self.exchangers = {} and then
\* _register_default_exchangers()
InitRegistered ==
    LET inst == [MyStreamingExchanger EXCEPT !.reg = 1]
    IN  /\ exchangers = SetItem(EmptyDict, inst.command, inst)
        /\ regLog = <<inst>>
        /\ returnedRegs = {inst}
        /\ default_pending = FALSE
        /\ variant = "root"
        /\ FleetIdle

\* src/flight/flight_server.py: __init__ leaves self.exchangers = {}; the
\* manager registers the default once the serving thread runs.
InitUnregistered ==
    /\ exchangers = EmptyDict
    /\ regLog = << >>
    /\ returnedRegs = {}
    /\ default_pending = TRUE
    /\ variant = "flight"
    /\ FleetIdle

Init ==
    /\ InitRegistered \/ InitUnregistered
    /\ InitServer(FALSE)

\* input streams of the exchange calls of Spec
SmallReaders == { <<1>> }

\* a client calls do_exchange(descriptor)
ExchangeCall(c) ==
    /\ InOrder(c)
    /\ \E cmd \in Commands, rd \in SmallReaders :
          BeginCall(c, "do_exchange",
                    [command |-> cmd, schema |-> <<"a">>, input |-> rd,
                     reader |-> rd,
                     present_at_start |-> cmd \in DOMAIN exchangers,
                     minReg |-> LastReturned(cmd),
                     tables_before |-> db_tables])
    /\ UNCHANGED <<fleetVars, regVars, dbVars, authVars, lifeVars>>

\* a client calls do_action(action)
ActionCall(c) ==
    /\ InOrder(c)
    /\ \/ \E p \in Payloads :
             BeginCall(c, "do_action",
                       [atype |-> AddExchangeAction_name, payload |-> p])
       \/ \E p \in { q \in Payloads : q.cls = "CustomA" } :
             BeginCall(c, "do_action",
                       [atype |-> "drop_exchange", payload |-> p])
    /\ UNCHANGED <<fleetVars, regVars, dbVars, authVars, lifeVars>>

Next ==
    \/ \E c \in Calls : ExchangeCall(c)
    \/ \E c \in Calls : ActionCall(c)
    \/ \E c \in Calls : DoExchange(c)
    \/ \E c \in Calls : FetchExchanger(c)
    \/ \E c \in Calls : SqlOrUnknown(c)
    \/ \E c \in Calls : ReadChunk(c)
    \/ \E c \in Calls : Transform(c)
    \/ \E c \in Calls : DoAction(c)
    \/ \E c \in Calls : AddExchange(c)
    \/ \E c \in Calls : AddReturn(c)
    \/ RegisterDefaultExchangers

Spec == Init /\ [][Next]_vars


(***************************************************************************)
(* SpecIngest: one client putting streams, one call after the other.       *)
(***************************************************************************)
\* the streams of at most MaxBatches batches, each of MaxRows rows or of none
Readers == UNION { [1..n -> {0, MaxRows}] : n \in 0..MaxBatches }

Schemas == { <<"a">>, <<"a", "b">> }

TableNames == { "flights", "airports" }

\* a client calls do_put(descriptor, reader)
PutCall ==
    /\ \E t \in TableNames, sch \in Schemas, rd \in Readers :
          BeginSequentialCall("do_put",
              [command |-> t, schema |-> sch, input |-> rd, reader |-> rd,
               tables_before |-> db_tables])
    /\ UNCHANGED <<fleetVars, regVars, dbVars, authVars, lifeVars>>

InitIngest == InitRegistered /\ InitServer(FALSE)

NextIngest ==
    \/ PutCall
    \/ \E c \in Calls : PutReadChunk(c)
    \/ \E c \in Calls : InsertTable(c)
    \/ \E c \in Calls : Execute(c)
    \/ \E c \in Calls : Unregister(c)

SpecIngest == InitIngest /\ [][NextIngest]_vars

(***************************************************************************)
(* SpecIngestConcurrent: clients putting streams into one table at the     *)
(* same time, each do_put in its own thread of the transport.              *)
(***************************************************************************)
\* streams of one or two batches with rows
ConcurrentReaders == { <<MaxRows>>, <<MaxRows, MaxRows>> }

ConcurrentPutCall(c) ==
    /\ InOrder(c)
    /\ \E rd \in ConcurrentReaders :
          BeginCall(c, "do_put",
              [command |-> "flights", schema |-> <<"a">>, input |-> rd,
               reader |-> rd, tables_before |-> db_tables])
    /\ UNCHANGED <<fleetVars, regVars, dbVars, authVars, lifeVars>>

InitIngestConcurrent == InitRegistered /\ InitServer(FALSE)

NextIngestConcurrent ==
    \/ \E c \in Calls : ConcurrentPutCall(c)
    \/ \E c \in Calls : PutReadChunk(c)
    \/ \E c \in Calls : InsertTable(c)
    \/ \E c \in Calls : Execute(c)
    \/ \E c \in Calls : Unregister(c)

SpecIngestConcurrent == InitIngestConcurrent /\ [][NextIngestConcurrent]_vars

(***************************************************************************)
(* SpecExchanger: one exchange call to the default exchanger.              *)
(***************************************************************************)
ExchangerCall ==
    /\ \E sch \in Schemas, rd \in Readers :
          BeginCall(1, "do_exchange",
              [command |-> MyStreamingExchanger_command, schema |-> sch,
               input |-> rd, reader |-> rd, present_at_start |-> TRUE,
               minReg |-> LastReturned(MyStreamingExchanger_command)])
    /\ UNCHANGED <<fleetVars, regVars, dbVars, authVars, lifeVars>>

InitExchanger == InitRegistered /\ InitServer(FALSE)

NextExchanger ==
    \/ ExchangerCall
    \/ \E c \in Calls : DoExchange(c)
    \/ \E c \in Calls : FetchExchanger(c)
    \/ \E c \in Calls : ReadChunk(c)
    \/ \E c \in Calls : Transform(c)
    \/ \E c \in Calls : TransformRaises(c)

SpecExchanger == InitExchanger /\ [][NextExchanger]_vars

(***************************************************************************)
(* SpecAuth: one client of a server with or without auth enabled, one call *)
(* after the other, each with the authorization header the client chooses. *)
(***************************************************************************)
Basic(text) == [scheme |-> "Basic", value |-> [encoding |-> "base64", text |-> text]]

Headers ==
    { NoHeader,
      Basic(Admin \o <<":">> \o Password123),
      Basic(Admin \o <<":">> \o Admin),
      Basic(<<"b","o","b">> \o <<":">> \o Password123),
      Basic(Admin),
      [scheme |-> "Basic", value |-> [encoding |-> "garbage", text |-> << >>]],
      [scheme |-> "basic",
       value |-> [encoding |-> "base64", text |-> Admin \o <<":">> \o Password123]],
      [scheme |-> "Digest", value |-> 1] }
    \cup { [scheme |-> "Bearer", value |-> t] : t \in 0..MaxSequential }

\* the fields of an exchange call that carries header h
ExchangeFields(h, cmd) ==
    [header |-> h, command |-> cmd, schema |-> <<"a">>,
     input |-> <<1>>, reader |-> <<1>>,
     present_at_start |-> cmd \in DOMAIN exchangers,
     minReg |-> LastReturned(cmd)]

\* the fields of a register-exchanger call that carries header h
ActionFields(h, p) ==
    [header |-> h, atype |-> AddExchangeAction_name, payload |-> p]

AuthExchangeCall ==
    /\ \E h \in Headers, cmd \in {CmdSelect1, CmdPadded} :
          BeginSequentialCall("do_exchange", ExchangeFields(h, cmd))
    /\ UNCHANGED <<fleetVars, regVars, dbVars, authVars, lifeVars>>

AuthActionCall ==
    /\ \E h \in Headers, p \in { q \in Payloads : q.cls = "CustomA" } :
          BeginSequentialCall("do_action", ActionFields(h, p))
    /\ UNCHANGED <<fleetVars, regVars, dbVars, authVars, lifeVars>>

InitAuth == InitRegistered /\ \E auth \in BOOLEAN : InitServer(auth)

NextAuth ==
    \/ AuthExchangeCall
    \/ AuthActionCall
    \/ \E c \in Calls : DoExchange(c)
    \/ \E c \in Calls : SqlOrUnknown(c)
    \/ \E c \in Calls : DoAction(c)
    \/ \E c \in Calls : AddExchange(c)
    \/ \E c \in Calls : AddReturn(c)

SpecAuth == InitAuth /\ [][NextAuth]_vars

(***************************************************************************)
(* SpecMiddleware: AuthMiddlewareFactory on its own, driven as a transport *)
(* that holds the factory drives it: start_call first, then the handler.   *)
(***************************************************************************)
\* a call handed to start_call before its handler
BeginMiddlewareCall(verb, fields) ==
    /\ calls[1].pc \in {"idle", "done"}
    /\ started < MaxSequential
    /\ started' = started + 1
    /\ calls' = [calls EXCEPT ![1] =
                    [NewCall(verb, fields) EXCEPT !.pc = "start_call"]]

MiddlewareExchangeCall ==
    /\ \E h \in Headers, cmd \in {CmdSelect1, CmdPadded} :
          BeginMiddlewareCall("do_exchange", ExchangeFields(h, cmd))
    /\ UNCHANGED <<fleetVars, regVars, dbVars, authVars, lifeVars>>

MiddlewareActionCall ==
    /\ \E h \in Headers, p \in { q \in Payloads : q.cls = "CustomA" } :
          BeginMiddlewareCall("do_action", ActionFields(h, p))
    /\ UNCHANGED <<fleetVars, regVars, dbVars, authVars, lifeVars>>

InitMiddleware == InitRegistered /\ InitServer(TRUE)

NextMiddleware ==
    \/ MiddlewareExchangeCall
    \/ MiddlewareActionCall
    \/ \E c \in Calls : StartCall(c)
    \/ \E c \in Calls : DoExchange(c)
    \/ \E c \in Calls : SqlOrUnknown(c)
    \/ \E c \in Calls : DoAction(c)
    \/ \E c \in Calls : AddExchange(c)
    \/ \E c \in Calls : AddReturn(c)

SpecMiddleware == InitMiddleware /\ [][NextMiddleware]_vars

(***************************************************************************)
(* SpecShutdown: a thread calling server.shutdown() again and again, while *)
(* a Flight call may be in progress.                                       *)
(***************************************************************************)
\* server.shutdown() is called once the call before it has ended
ShutdownCall ==
    /\ calls[1].pc \in {"idle", "done"}
    /\ started < MaxSequential
    /\ started' = started + 1
    /\ calls' = [calls EXCEPT ![1] =
                    [Idle EXCEPT !.pc = "shutdown", !.verb = "shutdown"]]
    /\ UNCHANGED <<fleetVars, regVars, dbVars, authVars, lifeVars>>

\* a client's exchange call, in progress while the server shuts down
ServedCall ==
    /\ \E cmd \in {CmdSelect1, CmdPadded, MyStreamingExchanger_command} :
          BeginCall(2, "do_exchange",
              [command |-> cmd, schema |-> <<"a">>, input |-> <<1>>,
               reader |-> <<1>>, present_at_start |-> cmd \in DOMAIN exchangers,
               minReg |-> LastReturned(cmd)])
    /\ UNCHANGED <<fleetVars, regVars, dbVars, authVars, lifeVars>>

InitShutdown == InitRegistered /\ InitServer(FALSE)

NextShutdown ==
    \/ ShutdownCall
    \/ ServedCall
    \/ \E c \in Calls : ShutdownCheck(c)
    \/ \E c \in Calls : ShutdownSetRequested(c)
    \/ \E c \in Calls : SuperShutdown(c)
    \/ \E c \in Calls : CloseDatabase(c)
    \/ \E c \in Calls : DoExchange(c)
    \/ \E c \in Calls : FetchExchanger(c)
    \/ \E c \in Calls : SqlOrUnknown(c)
    \/ \E c \in Calls : ReadChunk(c)
    \/ \E c \in Calls : Transform(c)

SpecShutdown == InitShutdown /\ [][NextShutdown]_vars

(***************************************************************************)
(* SpecTokens: AuthMiddlewareFactory on its own and its token table, over  *)
(* the calls of one client that logs in and presents tokens.               *)
(***************************************************************************)
\* headers with the tokens the factory may have issued and one it has not
TokenHeaders ==
    { NoHeader,
      Basic(Admin \o <<":">> \o Password123),
      Basic(Admin \o <<":">> \o Admin) }
    \cup { [scheme |-> "Bearer", value |-> t] : t \in 0..MaxTokenCalls }

\* a call handed to start_call before its handler
TokenCall ==
    /\ calls[1].pc \in {"idle", "done"}
    /\ started < MaxTokenCalls
    /\ started' = started + 1
    /\ \E h \in TokenHeaders :
          calls' = [calls EXCEPT ![1] =
              [NewCall("do_exchange", ExchangeFields(h, CmdPadded))
                  EXCEPT !.pc = "start_call"]]
    /\ UNCHANGED <<fleetVars, regVars, dbVars, authVars, lifeVars>>

InitTokens == InitRegistered /\ InitServer(TRUE)

NextTokens ==
    \/ TokenCall
    \/ \E c \in Calls : StartCall(c)
    \/ \E c \in Calls : DoExchange(c)
    \/ \E c \in Calls : SqlOrUnknown(c)

SpecTokens == InitTokens /\ [][NextTokens]_vars

(***************************************************************************)
(* SpecCredentials: AuthMiddlewareFactory on its own, on instances whose   *)
(* configs were built with different credentials arguments.                *)
(***************************************************************************)
Bob == <<"b","o","b">>
Secret == <<"s","3">>

\* the credentials arguments a config is built with
CredentialArgs ==
    { CredentialsNone,
      CredentialsDict(NoCredentials),
      CredentialsDict([u \in {Bob} |-> Secret]),
      CredentialsDict([u \in {Admin, Bob} |->
                          IF u = Admin THEN Secret ELSE Password123]) }

\* the headers clients send: none, username/secret pairs, a scheme the
\* factory does not know, and a token
CredentialHeaders ==
    { NoHeader,
      [scheme |-> "basic",
       value |-> [encoding |-> "base64", text |-> Bob \o <<":">> \o Secret]],
      Basic(Admin \o <<":">> \o Password123),
      Basic(Admin \o <<":">> \o Secret),
      Basic(Bob \o <<":">> \o Secret),
      Basic(Bob \o <<":">> \o Password123),
      Basic(Bob),
      [scheme |-> "Bearer", value |-> 1] }

\* a call handed to start_call before its handler
CredentialCall ==
    /\ calls[1].pc \in {"idle", "done"}
    /\ started < MaxTokenCalls
    /\ started' = started + 1
    /\ \E h \in CredentialHeaders :
          calls' = [calls EXCEPT ![1] =
              [NewCall("do_exchange", ExchangeFields(h, CmdPadded))
                  EXCEPT !.pc = "start_call"]]
    /\ UNCHANGED <<fleetVars, regVars, dbVars, authVars, lifeVars>>

InitCredentials ==
    InitRegistered /\ \E arg \in CredentialArgs : InitServerWith(TRUE, arg)

NextCredentials ==
    \/ CredentialCall
    \/ \E c \in Calls : StartCall(c)
    \/ \E c \in Calls : DoExchange(c)
    \/ \E c \in Calls : SqlOrUnknown(c)

SpecCredentials == InitCredentials /\ [][NextCredentials]_vars

(***************************************************************************)
(* SpecSqlExchange: one client sending statements as exchange commands,    *)
(* one call after the other.                                               *)
(***************************************************************************)
\* the statements sent; none of them is a registered command
SqlCommands ==
    { TicketCreate, TicketSelect, TicketInsert, CmdSelect1, CmdSelector,
      CmdPadded }

\* a client calls do_exchange(descriptor) with a statement as the command
SqlExchangeCall ==
    /\ \E cmd \in SqlCommands :
          BeginSequentialCall("do_exchange",
              [command |-> cmd, schema |-> <<"a">>,
               present_at_start |-> cmd \in DOMAIN exchangers,
               minReg |-> LastReturned(cmd),
               tables_before |-> db_tables])
    /\ UNCHANGED <<fleetVars, regVars, dbVars, authVars, lifeVars>>

InitSqlExchange == InitRegistered /\ InitServer(FALSE)

NextSqlExchange ==
    \/ SqlExchangeCall
    \/ \E c \in Calls : DoExchange(c)
    \/ \E c \in Calls : SqlOrUnknown(c)

SpecSqlExchange == InitSqlExchange /\ [][NextSqlExchange]_vars

(***************************************************************************)
(* SpecRetrieve: one client sending tickets, one call after the other.     *)
(***************************************************************************)
\* the ticket texts of the get calls
Tickets ==
    { TicketCreate, TicketDrop, TicketAlter, TicketSelect, TicketInsert,
      TicketCommentCreate, CmdSelect1, CmdSelector }

\* a client calls do_get(ticket)
GetCall ==
    /\ \E q \in Tickets :
          BeginSequentialCall("do_get",
              [command |-> q, tables_before |-> db_tables])
    /\ UNCHANGED <<fleetVars, regVars, dbVars, authVars, lifeVars>>

InitRetrieve == InitRegistered /\ InitServer(FALSE)

NextRetrieve ==
    \/ GetCall
    \/ \E c \in Calls : DoGet(c)

SpecRetrieve == InitRetrieve /\ [][NextRetrieve]_vars

(***************************************************************************)
(* SpecFleet: main starting the configured servers and shutting them down, *)
(* in either module.  SpecFleetLive adds the progress of the manager's     *)
(* thread: its steps are taken when they can be; a signal may never come,  *)
(* a serving thread may never end and a client may never end its call.     *)
(***************************************************************************)
InitFleet ==
    /\ InitServer(FALSE)
    /\ exchangers = EmptyDict
    /\ regLog = << >>
    /\ returnedRegs = {}
    /\ default_pending = FALSE
    /\ variant \in {"root", "flight"}
    /\ FleetIdle

\* The steps the manager's thread takes when it is not blocked.  In
\* super().shutdown() it is blocked while a call is in progress: that the
\* call raises instead is possible and never certain.
ManagerStep ==
    \/ StartServers
    \/ ConstructTransport
    \/ InitializeDatabase
    \/ Serve
    \/ RegisterDefault
    \/ MainFinally
    \/ MainEnds
    \/ SetShutdownEvent
    \/ InstanceShutdown
    \/ InstanceShutdownSet
    \/ InstanceSuperShutdown /\ ~instances[Current].inflight
    \/ InstanceClose
    \/ Join
    \/ Clear

NextFleet ==
    \/ StartServers
    \/ ConstructTransport
    \/ InitializeDatabase
    \/ Serve
    \/ RegisterDefault
    \/ MainFinally
    \/ MainEnds
    \/ HandleShutdownSignal
    \/ SetShutdownEvent
    \/ InstanceShutdown
    \/ InstanceShutdownSet
    \/ InstanceSuperShutdown
    \/ InstanceClose
    \/ Join
    \/ Clear
    \/ \E i \in Instances : ThreadExit(i)
    \/ \E i \in Instances : ThreadRaises(i)
    \/ \E i \in Instances : ThreadReturns(i)
    \/ \E i \in Instances : CallBegins(i)
    \/ \E i \in Instances : CallEnds(i)

SpecFleet == InitFleet /\ [][NextFleet]_vars

SpecFleetLive == InitFleet /\ [][NextFleet]_vars /\ WF_vars(ManagerStep)

(***************************************************************************)
(* SpecRegistries: the manager starts its servers while clients send       *)
(* add_exchange actions to the instances that listen.                      *)
(***************************************************************************)
NextRegistries ==
    \/ StartServers
    \/ ConstructTransport
    \/ InitializeDatabase
    \/ Serve
    \/ RegisterDefault
    \/ \E i \in Instances : InstanceAddExchange(i)

SpecRegistries == InitFleet /\ [][NextRegistries]_vars

(***************************************************************************)
(* SpecRegistryOps: calls of every verb and shutdown() on one instance,    *)
(* each in its own thread, with registrations among them.                  *)
(***************************************************************************)
\* an exchange call to a command that is, or may come to be, registered
RegistryExchangeCall(c) ==
    /\ InOrder(c)
    /\ \E cmd \in {MyStreamingExchanger_command, CmdCustom} :
          BeginCall(c, "do_exchange",
                    [command |-> cmd, schema |-> <<"a">>, input |-> <<1>>,
                     reader |-> <<1>>,
                     present_at_start |-> cmd \in DOMAIN exchangers,
                     minReg |-> LastReturned(cmd),
                     tables_before |-> db_tables])
    /\ UNCHANGED <<fleetVars, regVars, dbVars, authVars, lifeVars>>

\* an action: a registration under a new command or under the default
\* exchanger's command, or an action type the server does not know
RegistryActionCall(c) ==
    /\ InOrder(c)
    /\ \/ \E p \in { q \in Payloads :
                        q.cls \in {"CustomA", "CustomStreamingExchanger"} } :
             BeginCall(c, "do_action",
                       [atype |-> AddExchangeAction_name, payload |-> p])
       \/ \E p \in { q \in Payloads : q.cls = "CustomA" } :
             BeginCall(c, "do_action",
                       [atype |-> "drop_exchange", payload |-> p])
    /\ UNCHANGED <<fleetVars, regVars, dbVars, authVars, lifeVars>>

RegistryPutCall(c) ==
    /\ InOrder(c)
    /\ BeginCall(c, "do_put",
                 [command |-> "flights", schema |-> <<"a">>,
                  input |-> <<MaxRows>>, reader |-> <<MaxRows>>,
                  tables_before |-> db_tables])
    /\ UNCHANGED <<fleetVars, regVars, dbVars, authVars, lifeVars>>

RegistryGetCall(c) ==
    /\ InOrder(c)
    /\ BeginCall(c, "do_get",
                 [command |-> CmdSelect1, tables_before |-> db_tables])
    /\ UNCHANGED <<fleetVars, regVars, dbVars, authVars, lifeVars>>

\* server.shutdown(), called by a thread of the process
RegistryShutdownCall(c) ==
    /\ InOrder(c)
    /\ calls[c].pc = "idle"
    /\ calls' = [calls EXCEPT ![c] =
                    [Idle EXCEPT !.pc = "shutdown", !.verb = "shutdown"]]
    /\ UNCHANGED <<fleetVars, started, regVars, dbVars, authVars, lifeVars>>

InitRegistryOps ==
    /\ InitRegistered \/ InitUnregistered
    /\ InitServer(FALSE)

NextRegistryOps ==
    \/ \E c \in Calls : RegistryExchangeCall(c)
    \/ \E c \in Calls : RegistryActionCall(c)
    \/ \E c \in Calls : RegistryPutCall(c)
    \/ \E c \in Calls : RegistryGetCall(c)
    \/ \E c \in Calls : RegistryShutdownCall(c)
    \/ \E c \in Calls : DoExchange(c)
    \/ \E c \in Calls : FetchExchanger(c)
    \/ \E c \in Calls : SqlOrUnknown(c)
    \/ \E c \in Calls : ReadChunk(c)
    \/ \E c \in Calls : Transform(c)
    \/ \E c \in Calls : DoAction(c)
    \/ \E c \in Calls : AddExchange(c)
    \/ \E c \in Calls : AddReturn(c)
    \/ \E c \in Calls : PutReadChunk(c)
    \/ \E c \in Calls : InsertTable(c)
    \/ \E c \in Calls : Execute(c)
    \/ \E c \in Calls : Unregister(c)
    \/ \E c \in Calls : DoGet(c)
    \/ \E c \in Calls : ShutdownCheck(c)
    \/ \E c \in Calls : ShutdownSetRequested(c)
    \/ \E c \in Calls : SuperShutdown(c)
    \/ \E c \in Calls : CloseDatabase(c)
    \/ RegisterDefaultExchangers

SpecRegistryOps == InitRegistryOps /\ [][NextRegistryOps]_vars

(***************************************************************************)
(* Properties of the registry and of do_exchange's dispatch (Spec).        *)
(***************************************************************************)
ExchangeCalls == { c \in Calls : calls[c].verb = "do_exchange" }
AddCalls ==
    { c \in Calls : calls[c].verb = "do_action"
                    /\ calls[c].atype = AddExchangeAction_name }

\* the index in regLog of the latest store under a command, 0 if none
LastStore(command) ==
    Max({ i \in 1..Len(regLog) : regLog[i].command = command })

\* the instance was stored into the registry by some registration
Registered(inst) == \E i \in 1..Len(regLog) : regLog[i] = inst

\* C1: an exchange call whose command is in the registry is dispatched to
\* the handler registered under that command and never runs the command as
\* SQL, also when the command begins with an SQL keyword.
C1_RegisteredCommandRoutesToHandler ==
    \A c \in ExchangeCalls :
        calls[c].present_at_start =>
            /\ calls[c].path \in {"none", "handler"}
            /\ calls[c].ran = << >>
            /\ calls[c].pc = "done" =>
                  /\ calls[c].path = "handler"
                  /\ calls[c].exchanger.command = calls[c].command
                  /\ Registered(calls[c].exchanger)

C1_Witness ==
    \E c \in ExchangeCalls :
        /\ calls[c].pc = "done"
        /\ calls[c].present_at_start
        /\ calls[c].command = CmdSelector
        /\ _is_sql_query(calls[c].command)
        /\ calls[c].path = "handler"
        /\ calls[c].exchanger.cls = "SelectorExchanger"

\* the text begins with one of the eight keywords, in any letter case
BeginsWithKeyword(text) ==
    \E kw \in { sql_keywords[k] : k \in 1..Len(sql_keywords) } :
        /\ Len(text) >= Len(kw)
        /\ \A i \in 1..Len(kw) :
              \/ text[i] = kw[i]
              \/ \E j \in 1..26 : UpperLetters[j] = kw[i] /\ LowerLetters[j] = text[i]

\* C2: an exchange call whose command is not in the registry runs the
\* command on the engine and streams the result when the command begins
\* with an SQL keyword; otherwise it fails with the unknown-command error,
\* which lists exactly the registry's keys of that moment, and changes
\* neither the registry nor the engine.
C2_UnregisteredCommand ==
    /\ [](\A c \in ExchangeCalls :
            /\ (calls[c].pc = "done" /\ calls[c].command \notin DOMAIN exchangers)
                  => calls[c].path \in {"sql", "unknown"}
            /\ (calls[c].pc = "done" /\ calls[c].path # "handler") =>
                  IF BeginsWithKeyword(calls[c].command)
                  THEN /\ calls[c].path = "sql"
                       /\ calls[c].ran = <<calls[c].command>>
                       /\ \E i \in 1..Len(executed) : executed[i] = calls[c].command
                       /\ LET expect == EngineRun(calls[c].tables_before,
                                                  calls[c].command)
                          IN  IF expect.ok
                              THEN /\ calls[c].result = "ok"
                                   /\ calls[c].writer.begun = 1
                                   /\ calls[c].writer.closed = 1
                                   /\ calls[c].writer.schema = expect.schema
                                   /\ calls[c].writer.batches = expect.batches
                              ELSE calls[c].error = "EngineError"
                  ELSE /\ calls[c].path = "unknown"
                       /\ calls[c].error = "FlightServerError"
                       /\ calls[c].ran = << >>
                       /\ ~calls[c].stored
                       /\ calls[c].writer = NoWriter)
    /\ [][\A c \in Calls :
            (calls[c].pc = "no_exchanger" /\ calls'[c].path = "unknown") =>
                /\ calls'[c].available = DOMAIN exchangers
                /\ UNCHANGED <<regVars, dbVars>>]_vars

C2_Witness ==
    /\ \E c \in ExchangeCalls :
          /\ calls[c].pc = "done"
          /\ calls[c].command = CmdPadded
          /\ calls[c].path = "unknown"
          /\ calls[c].available = {MyStreamingExchanger_command, CmdCustom}
    /\ \E c \in AddCalls : calls[c].pc = "done" /\ calls[c].stored

C2_WitnessSql ==
    \E c \in ExchangeCalls :
        /\ calls[c].pc = "done"
        /\ calls[c].command = CmdSelect1
        /\ calls[c].path = "sql"
        /\ calls[c].result = "ok"

\* C6: an exchange call that begins after a registration under its command
\* has returned finds a handler for the command: that registration's, or
\* one stored under the command after it.
C6_RegistrationVisible ==
    \A c \in ExchangeCalls :
        (calls[c].minReg > 0
         /\ calls[c].pc \in {"read_chunk", "transform", "done"}) =>
            /\ calls[c].path = "handler"
            /\ calls[c].exchanger.command = calls[c].command
            /\ calls[c].exchanger.reg >= calls[c].minReg
            /\ Registered(calls[c].exchanger)

C6_Witness ==
    \E c \in ExchangeCalls :
        /\ calls[c].pc = "done"
        /\ calls[c].path = "handler"
        /\ calls[c].exchanger.cls = "CustomStreamingExchanger"
        /\ calls[c].exchanger.reg = calls[c].minReg
        /\ \E i \in 1..(calls[c].minReg - 1) : regLog[i].command = calls[c].command

\* the payload meets the exchanger contract
WellFormed(p) ==
    /\ p.kind = "class"
    /\ p.subclass
    /\ p.declares_command
    /\ p.defines_exchange_f

\* C7: a registration whose payload does not meet the exchanger contract
\* fails and stores nothing; every handler in the registry has a command
\* name and an exchange function.
C7_MalformedPayloadRejected ==
    /\ \A c \in AddCalls :
          (calls[c].pc = "done" /\ ~WellFormed(calls[c].payload)) =>
              /\ calls[c].result = "failed"
              /\ ~calls[c].stored
    /\ \A k \in DOMAIN exchangers :
          /\ exchangers[k].command # AbstractExchanger_command
          /\ exchangers[k].has_exchange_f

\* C8: the registry maps every command to the instance of the latest store
\* under that command, and holds no other key.
C8_LastWriteWins ==
    \A cmd \in Commands \cup DOMAIN exchangers :
        IF LastStore(cmd) = 0
        THEN cmd \notin DOMAIN exchangers
        ELSE /\ cmd \in DOMAIN exchangers
             /\ exchangers[cmd] = regLog[LastStore(cmd)]

C8_Witness ==
    /\ \A c \in Calls : calls[c].pc = "done"
    /\ \E c, d \in AddCalls :
          /\ calls[c].stored /\ calls[d].stored
          /\ calls[c].command = CmdCustom /\ calls[d].command = CmdCustom
          /\ calls[c].exchanger.cls # calls[d].exchanger.cls
          /\ calls[c].exchanger.reg < calls[d].exchanger.reg
          /\ exchangers[CmdCustom].cls = calls[d].exchanger.cls

C8_WitnessDefault ==
    /\ Len(regLog) >= 2
    /\ regLog[1].cls = "MyStreamingExchanger"
    /\ exchangers[MyStreamingExchanger_command].cls = "CustomStreamingExchanger"

\* the registry that results from registering the instances of q in order
RECURSIVE ApplyRegistrations(_, _)
ApplyRegistrations(d, q) ==
    IF q = << >> THEN d
    ELSE ApplyRegistrations(
             [k \in DOMAIN d \cup {Head(q).command} |->
                 IF k = Head(q).command THEN Head(q).cls ELSE d[k]],
             Tail(q))

\* the orders in which the registrations of a set can be applied
Orders(S) ==
    { q \in [1..Cardinality(S) -> S] :
        \A i, j \in 1..Cardinality(S) : q[i] = q[j] => i = j }

Quiescent == \A c \in Calls : calls[c].pc \in {"idle", "done"}

\* C9: under every interleaving the registry maps a command only to a
\* handler registered under that command, a dispatch gets such a handler,
\* and when no call is running the registry is what the registrations that
\* returned give in some sequential order.
C9_RegistryNotCorrupted ==
    /\ \A k \in DOMAIN exchangers :
          /\ exchangers[k].command = k
          /\ Registered(exchangers[k])
    /\ \A c \in ExchangeCalls :
          calls[c].path = "handler" =>
              /\ calls[c].exchanger.command = calls[c].command
              /\ Registered(calls[c].exchanger)
    /\ Quiescent =>
          \E q \in Orders(returnedRegs) :
              ApplyRegistrations([k \in {} |-> "none"], q)
                  = [k \in DOMAIN exchangers |-> exchangers[k].cls]

C9_Witness ==
    /\ Quiescent
    /\ \E c, d \in AddCalls :
          /\ c < d
          /\ calls[c].stored /\ calls[d].stored
          /\ calls[c].command = calls[d].command
          /\ calls[c].exchanger.reg > calls[d].exchanger.reg


(***************************************************************************)
(* Properties of do_put (SpecIngest).                                      *)
(***************************************************************************)
PutCalls == { c \in Calls : calls[c].verb = "do_put" }

\* the row count of a table, an absent table counting for none
RowsOf(tables, t) == IF t \in DOMAIN tables THEN tables[t].rows ELSE 0

\* the put calls that have ended after reading their whole stream
EndedPuts == { c \in PutCalls : calls[c].pc = "done" /\ ~calls[c].read_error }

C3_WitnessEmpty ==
    \E c \in EndedPuts :
        /\ calls[c].result = "ok"
        /\ calls[c].input = << >>
        /\ DOMAIN calls[c].tables_before # {}

(***************************************************************************)
(* Properties of MyStreamingExchanger.exchange_f (SpecExchanger).          *)
(***************************************************************************)
\* the exchange calls the default exchanger has answered, its input read
\* and its output written without error
DefaultExchanges ==
    { c \in ExchangeCalls :
        /\ calls[c].pc = "done"
        /\ calls[c].exchanger.cls = "MyStreamingExchanger"
        /\ ~calls[c].read_error
        /\ calls[c].error = "none" }

\* C4: for an input of N rows, however split into batches, the default
\* exchanger's output has N rows and the input's columns followed by one
\* boolean column "processed", true in every row; for an input of no batch
\* the output begins with an empty schema and is closed.
C4_DefaultExchangerOutput ==
    \A c \in DefaultExchanges :
        LET w == calls[c].writer
            N == SumSeq(calls[c].input)
        IN  /\ calls[c].result = "ok"
            /\ w.begun = 1
            /\ w.closed = 1
            /\ IF calls[c].input = << >>
               THEN w.schema = << >> /\ w.batches = << >>
               ELSE /\ SumSeq(w.batches) = N
                    /\ w.schema = Append(calls[c].schema, "processed")
                    /\ Len(w.processed) = N
                    /\ \A i \in 1..Len(w.processed) : w.processed[i] = TRUE

(***************************************************************************)
(* Properties of authentication (SpecAuth, SpecMiddleware).                *)
(***************************************************************************)
Unauthenticated(c) == calls[c].error = "FlightUnauthenticatedError"

\* the header carries a username and secret of the credential set, or a
\* token the instance has issued
ValidHeader(h) ==
    \/ /\ h.scheme = "Basic"
       /\ h.value.encoding = "base64"
       /\ \E u \in DOMAIN credentials :
             h.value.text = u \o <<":">> \o credentials[u]
    \/ /\ h.scheme = "Bearer"
       /\ h.value \in 1..issued

\* a call without a valid header is before its handler, or has ended with
\* the unauthenticated error having run nothing on the engine, stored
\* nothing in the registry and written no output
RejectedBeforeHandler ==
    \A c \in Calls :
        (calls[c].pc # "idle" /\ ~ValidHeader(calls[c].header)) =>
            \/ calls[c].pc = "start_call"
            \/ /\ calls[c].pc = "done"
               /\ Unauthenticated(c)
               /\ calls[c].path = "none"
               /\ calls[c].ran = << >>
               /\ ~calls[c].stored
               /\ calls[c].exchanger = NoExchanger
               /\ calls[c].writer = NoWriter

\* C5: on an instance with auth enabled, every call that carries no valid
\* authorization header fails with the unauthenticated error before any
\* handler step runs for it: no query runs on the engine and the registry
\* is not changed by it.
C5_RejectedBeforeHandler == auth_enabled => RejectedBeforeHandler

\* The factory's own start_call rejects such a call where a transport
\* holds the factory, and the rejecting step changes neither the registry
\* nor the engine.
StartCallRejectsBeforeHandler ==
    /\ []RejectedBeforeHandler
    /\ [][\A c \in Calls :
            (calls[c].pc = "start_call" /\ Unauthenticated(c)')
                => UNCHANGED <<regVars, dbVars>>]_vars

StartCallReached ==
    /\ issued = 1
    /\ Len(executed) = 1
    /\ \E c \in Calls :
          /\ calls[c].pc = "done"
          /\ Unauthenticated(c)
          /\ calls[c].header = [scheme |-> "Bearer", value |-> 2]
          /\ calls[c].command = CmdSelect1

(***************************************************************************)
(* Properties of shutdown (SpecShutdown).                                  *)
(***************************************************************************)
ShutdownCalls == { c \in Calls : calls[c].verb = "shutdown" }

\* C10: when shutdown() is called again after it has ended, the later call
\* raises nothing, and the transport stop and the close of the engine
\* connection have each been performed exactly once.
C10_ShutdownIdempotent ==
    \A c \in ShutdownCalls :
        (calls[c].pc = "done" /\ started >= 2) =>
            /\ calls[c].error = "none"
            /\ transport_stops = 1
            /\ db_closes = 1

(***************************************************************************)
(* Properties of do_action's dispatch and of the default registration     *)
(* (Spec).                                                                 *)
(***************************************************************************)
UnknownActionCalls ==
    { c \in Calls : calls[c].verb = "do_action"
                    /\ calls[c].atype # AddExchangeAction_name }

\* C19: a do_action call whose type is not "add_exchange" ends with
\* FlightServerError in the step that examines the type; it stores nothing
\* and runs no statement, and that step changes neither the registry nor
\* the engine.
C19_UnknownActionFails ==
    /\ [](\A c \in UnknownActionCalls :
            /\ calls[c].pc \in {"do_action", "done"}
            /\ calls[c].pc = "done" =>
                  /\ calls[c].result = "failed"
                  /\ calls[c].error = "FlightServerError"
                  /\ ~calls[c].stored
                  /\ calls[c].ran = << >>)
    /\ [][\A c \in UnknownActionCalls :
            (calls[c].pc = "do_action" /\ calls'[c] # calls[c]) =>
                /\ calls'[c].pc = "done"
                /\ UNCHANGED <<regVars, dbVars>>]_vars

\* an unknown action carrying a class that add_exchange would have
\* registered under "custom" has ended, and "custom" is not registered
C19_Witness ==
    /\ \E c \in UnknownActionCalls :
          /\ calls[c].pc = "done"
          /\ calls[c].payload.kind = "class"
          /\ calls[c].payload.subclass
          /\ Instantiate(calls[c].payload).command = CmdCustom
    /\ CmdCustom \notin DOMAIN exchangers

\* C18: while the instance accepts calls and no shutdown was requested,
\* the registry has a handler under "my_streaming_exchanger".
C18_DefaultRegisteredWhileServing ==
    (serving /\ ~shutdown_requested) =>
        MyStreamingExchanger_command \in DOMAIN exchangers

(***************************************************************************)
(* Properties of the manager's start and shutdown (SpecFleet,              *)
(* SpecFleetLive).                                                         *)
(***************************************************************************)
\* C12: when start_servers has raised to its caller, shutdown() has been
\* called on every server whose serving thread was started, and no config
\* after the failed one has been touched.
C12_RollbackBeforeFailureReported ==
    manager.pc = "start_failed" =>
        /\ \A i \in Instances :
              instances[i].thread # "none" => instances[i].shutdown_calls >= 1
        /\ \A i \in Instances :
              i > manager.failed => instances[i] = NoInstance

\* a step of shutdown_servers that empties a running set that was not empty
Empties == running_servers # << >> /\ running_servers' = << >>

\* C13: shutdown() is called on a server only when the event is set; in one
\* shutdown_servers no server is called twice, and when the running set is
\* emptied every server in it has been called exactly once.
C13_EventFirstThenEachOnce ==
    /\ [][\A i \in Instances :
            instances'[i].shutdown_calls > instances[i].shutdown_calls =>
                shutdown_event]_vars
    /\ [](\A i \in Instances : Count(manager.called, i) <= 1)
    /\ [](Range(manager.called) \subseteq Range(running_servers) \/ running_servers = << >>)
    /\ [][Empties =>
            \A i \in Range(running_servers) : Count(manager.called, i) = 1]_vars

\* shutdown_servers has returned after calling shutdown() on all the
\* configured servers, each once
C13_Witness ==
    /\ manager.pc \notin ShutdownPcs
    /\ manager.runs >= 1
    /\ running_servers = << >>
    /\ Len(manager.called) = MaxInstances
    /\ \A i \in Instances : instances[i].shutdown_calls = 1

\* a step of the current server's shutdown() or join in which something
\* goes wrong: the transport stop raises, the close raises, or the thread
\* is still alive after the join
ShutdownErrorStep ==
    /\ manager.pc \in {"super_shutdown", "close", "join"}
    /\ manager'.signals = manager.signals
    /\ \/ /\ instances'[Current].transport_stops > instances[Current].transport_stops
          /\ instances'[Current].transport # "stopped"
       \/ /\ instances'[Current].db_closes > instances[Current].db_closes
          /\ instances'[Current].db # "closed"
       \/ ~instances[Current].warned /\ instances'[Current].warned

\* C14: an error in one server's shutdown is logged and leaves
\* shutdown_servers in its loop, at that server's join or at the next
\* server; the loop has called shutdown() on every server it has passed,
\* and the running set is emptied only when every server in it was called.
C14_ShutdownErrorsContained ==
    /\ [][ShutdownErrorStep =>
            /\ manager'.pc \in {"join", "shutdown_loop"}
            /\ manager'.ret = manager.ret
            /\ manager'.runs = manager.runs
            /\ manager'.called = manager.called
            /\ running_servers' = running_servers]_vars
    /\ [](manager.pc \in ShutdownPcs \ {"set_event"} =>
            \A k \in 1..Len(running_servers) :
                k < manager.idx => running_servers[k] \in Range(manager.called))
    /\ [][Empties => Range(running_servers) \subseteq Range(manager.called)]_vars

\* shutdown_servers has returned although the first server's transport
\* stop raised; the server after it was shut down to the end
C14_Witness ==
    /\ manager.pc \notin ShutdownPcs
    /\ manager.runs = 1
    /\ manager.signals = 0
    /\ running_servers = << >>
    /\ instances[1].error_logged
    /\ instances[1].transport = "listening"
    /\ instances[MaxInstances].shutdown_calls = 1
    /\ instances[MaxInstances].stopped

\* the close raised in one server's shutdown and the thread of the same
\* server outlived its join; the next server was still shut down
C14_WitnessCloseAndJoin ==
    /\ manager.pc \notin ShutdownPcs
    /\ running_servers = << >>
    /\ instances[1].db_closes = 1
    /\ instances[1].db = "open"
    /\ instances[1].warned
    /\ instances[MaxInstances].stopped

(***************************************************************************)
(* The lifecycle of a server, read from its fields.                        *)
(***************************************************************************)
Lifecycle(i) ==
    IF instances[i].transport = "none" /\ instances[i].db = "none"
    THEN "Created"
    ELSE IF instances[i].stopped THEN "Stopped"
    ELSE IF instances[i].shutdown_requested THEN "ShuttingDown"
    ELSE IF instances[i].thread = "none" THEN "Initializing"
    ELSE "Serving"

LifecycleNext(i) ==
    IF instances'[i].transport = "none" /\ instances'[i].db = "none"
    THEN "Created"
    ELSE IF instances'[i].stopped THEN "Stopped"
    ELSE IF instances'[i].shutdown_requested THEN "ShuttingDown"
    ELSE IF instances'[i].thread = "none" THEN "Initializing"
    ELSE "Serving"

Rank(l) ==
    CASE l = "Created" -> 0
      [] l = "Initializing" -> 1
      [] l = "Serving" -> 2
      [] l = "ShuttingDown" -> 3
      [] l = "Stopped" -> 4

\* every step leaves a server in its state or moves it to a later one,
\* and a requested shutdown stays requested
ForwardOnly ==
    [][\A i \in Instances :
          /\ Rank(LifecycleNext(i)) >= Rank(Lifecycle(i))
          /\ instances[i].shutdown_requested => instances'[i].shutdown_requested]_vars

\* C15: the lifecycle only moves forward, a server is never Serving again
\* once shutdown was requested, and a Stopped server has its connection
\* closed.
C15_ForwardOnlyStoppedClosed ==
    /\ ForwardOnly
    /\ [](\A i \in Instances :
            Lifecycle(i) = "Stopped" => instances[i].db = "closed")

\* C15, amended: the lifecycle only moves forward, a server is never
\* Serving again once shutdown was requested, and a Stopped server has had
\* its transport stopped and the close of its connection attempted once:
\* the connection is closed unless that close raised.
C15_ForwardOnlyStoppedCloseAttempted ==
    /\ ForwardOnly
    /\ [](\A i \in Instances :
            Lifecycle(i) = "Stopped" =>
                /\ instances[i].transport = "stopped"
                /\ instances[i].db_closes = 1
                /\ instances[i].db \in {"closed", "open"})
    /\ [][\A i \in Instances :
            (Lifecycle(i) # "Stopped" /\ LifecycleNext(i) = "Stopped") =>
                /\ instances'[i].db_closes = instances[i].db_closes + 1
                /\ Lifecycle(i) = "ShuttingDown"]_vars

\* a server is Stopped with its connection still open, because the close
\* raised, and another is Stopped with its connection closed
C15_Witness ==
    /\ \E i \in Instances :
          Lifecycle(i) = "Stopped" /\ instances[i].db = "open"
    /\ \E i \in Instances :
          Lifecycle(i) = "Stopped" /\ instances[i].db = "closed"

\* C16: a server whose serving thread was started has opened its
\* connection and run the probe during its construction; a server whose
\* construction failed has no serving thread.
C16_ServingOnlyAfterProbe ==
    \A i \in Instances :
        /\ instances[i].thread # "none" =>
              /\ instances[i].db # "none"
              /\ instances[i].probed
        /\ (manager.failed = i) => instances[i].thread = "none"

\* the serving thread ended while no shutdown() had been called
ServeLoopExited(i) ==
    /\ instances[i].thread = "exited"
    /\ ~instances[i].shutdown_requested

\* C17: a server whose serve loop has ended without a shutdown() call is
\* eventually shut down to the end, with its connection closed.
C17_ServeLoopExitLeadsToStopped ==
    \A i \in Instances :
        ServeLoopExited(i) ~>
            (instances[i].shutdown_requested /\ instances[i].stopped
             /\ instances[i].db = "closed")

\* C11: a shutdown_servers that has begun comes to its end.
C11_ShutdownServersTerminates ==
    (manager.pc \in ShutdownPcs) ~> (manager.pc \notin ShutdownPcs)

\* the join of a server's thread is left in one step, whatever the thread
\* does: with a warning when the thread is still alive
JoinIsBounded ==
    /\ (manager.pc = "join") ~> (manager.pc # "join")
    /\ [][(manager.pc = "join" /\ manager'.pc # "join"
           /\ manager'.signals = manager.signals) =>
             /\ manager'.pc = "shutdown_loop"
             /\ manager'.idx = manager.idx + 1
             /\ instances'[Current].warned =
                  (instances[Current].warned \/ instances[Current].thread = "alive")]_vars

(***************************************************************************)
(* Properties of do_get (SpecRetrieve).                                    *)
(***************************************************************************)
GetCalls == { c \in Calls : calls[c].verb = "do_get" }

\* the text is a create, drop or alter statement
IsSchemaStatement(text) == Statement(text).kind \in {"create", "drop", "alter"}

\* C20: a get call whose ticket is a create, drop or alter statement has
\* run it once and returned the one-row status stream, with the catalog
\* changed as the statement says; a call with any other ticket has run it
\* and returned the engine's result; a call whose statement the engine
\* rejects has failed, returned nothing and changed nothing.
C20_RetrieveClassifiesTicket ==
    \A c \in GetCalls :
        calls[c].pc = "done" =>
            LET expect == EngineRun(calls[c].tables_before, calls[c].command)
            IN  /\ calls[c].ran = <<calls[c].command>>
                /\ IF ~expect.ok
                   THEN /\ calls[c].result = "failed"
                        /\ calls[c].returned = NoStream
                        /\ db_tables = calls[c].tables_before
                   ELSE IF IsSchemaStatement(calls[c].command)
                   THEN /\ calls[c].result = "ok"
                        /\ calls[c].returned = StatusStream
                        /\ db_tables = expect.tables
                   ELSE /\ calls[c].result = "ok"
                        /\ calls[c].returned.present
                        /\ calls[c].returned.schema = expect.schema
                        /\ calls[c].returned.batches = expect.batches

(***************************************************************************)
(* Properties of the token table (SpecAuth, SpecMiddleware, SpecTokens).   *)
(***************************************************************************)
\* the header carries a username of the credential set and its secret
ValidBasic(h) ==
    /\ h.scheme = "Basic"
    /\ h.value.encoding = "base64"
    /\ \E u \in DOMAIN credentials :
          h.value.text = u \o <<":">> \o credentials[u]

\* the username a Basic header carries
UserOf(h) == Partition(h.value.text, ":").before

\* the call is past start_call: at its handler or ended
Past(c) == calls[c].pc \notin {"idle", "start_call"}

\* the call is at its handler, or has ended otherwise than by the
\* unauthenticated error
Accepted(c) == Past(c) /\ ~Unauthenticated(c)

\* C21: on an instance with auth enabled, a call with a correct username
\* and secret has put a token that was not in the table into it, recorded
\* against that username; a call presenting a token of the table is
\* accepted and leaves the table as it is.
C21_TokenIssuedAndReused ==
    /\ [](auth_enabled =>
            \A c \in Calls :
                (Past(c) /\ ValidBasic(calls[c].header)) =>
                    /\ Accepted(c)
                    /\ \E t \in DOMAIN tokens : tokens[t] = UserOf(calls[c].header))
    /\ [][\A c \in Calls :
            (calls[c].pc = "start_call" /\ calls'[c] # calls[c]) =>
                IF ValidBasic(calls[c].header)
                THEN \E t \in DOMAIN tokens' :
                        /\ t \notin DOMAIN tokens
                        /\ tokens' = SetItem(tokens, t, UserOf(calls[c].header))
                ELSE /\ tokens' = tokens
                     /\ (calls[c].header.scheme = "Bearer"
                         /\ calls[c].header.value \in DOMAIN tokens) =>
                            calls'[c].pc = calls[c].verb]_vars

\* C22: on an instance with auth enabled, a call presenting a token that
\* this instance's table does not hold (a token another instance issued)
\* ends with the unauthenticated error before its handler.
C22_ForeignTokenRejected ==
    auth_enabled =>
        \A c \in Calls :
            (Past(c) /\ calls[c].header.scheme = "Bearer"
                     /\ calls[c].header.value \notin DOMAIN tokens) =>
                /\ calls[c].pc = "done"
                /\ Unauthenticated(c)
                /\ calls[c].path = "none"
                /\ calls[c].ran = << >>

\* C23: every step keeps every entry of the token table; a call that
\* presents a token of the table is let through by start_call, and a call
\* that presented an issued token was accepted.
C23_TokensNeverExpire ==
    /\ [][\A t \in DOMAIN tokens :
            t \in DOMAIN tokens' /\ tokens'[t] = tokens[t]]_vars
    /\ [][\A c \in Calls :
            (calls[c].pc = "start_call" /\ calls'[c] # calls[c]
             /\ calls[c].header.scheme = "Bearer"
             /\ calls[c].header.value \in DOMAIN tokens) =>
                calls'[c].pc = calls[c].verb]_vars
    /\ [](\A c \in Calls :
            (Past(c) /\ calls[c].header.scheme = "Bearer"
                     /\ calls[c].header.value \in 1..issued) => Accepted(c))
    /\ [](DOMAIN tokens = 1..issued)

\* the first token is accepted in the third call, after a second login
\* has issued another token
C23_Witness ==
    /\ started = 3
    /\ issued = 2
    /\ \E c \in Calls :
          /\ calls[c].pc = "done"
          /\ calls[c].header = [scheme |-> "Bearer", value |-> 1]
          /\ Accepted(c)
          /\ calls[c].path = "unknown"

(***************************************************************************)
(* Properties of the registries of a fleet (SpecRegistries).               *)
(***************************************************************************)
\* C24: a step in which instance i handles an add_exchange action leaves
\* the registry of every other instance as it was, and a registry changes
\* only in a step of its own instance (an add_exchange it handles, its
\* construction, or the manager registering its default exchanger).
C24_RegistrationsPerInstance ==
    [][\A i \in Instances :
        /\ instances'[i].add_calls > instances[i].add_calls =>
              \A j \in Instances \ {i} :
                  instances'[j].exchangers = instances[j].exchangers
        /\ instances'[i].exchangers # instances[i].exchangers =>
              \/ instances'[i].add_calls > instances[i].add_calls
              \/ manager.idx = i /\ manager.pc \in {"init_database", "register_default"}
      ]_vars

\* two listening instances, one with a custom exchanger registered by an
\* add_exchange action and one whose registry holds the default only
C24_Witness ==
    \E i, j \in Instances :
        /\ i # j
        /\ instances[i].transport = "listening"
        /\ instances[j].transport = "listening"
        /\ instances[i].add_calls > 0
        /\ CmdCustom \in DOMAIN instances[i].exchangers
        /\ DOMAIN instances[j].exchangers = {MyStreamingExchanger_command}

(***************************************************************************)
(* Properties of errors and of reading input (SpecExchanger, SpecIngest).  *)
(***************************************************************************)
\* C25: a call in whose handling an error was raised (here: by a read of
\* its input stream) has ended as a failed call carrying an error, and no
\* call has run its engine statement more than once.
C25_ErrorsSurfacedNoRetry ==
    \A c \in Calls :
        calls[c].pc = "done" =>
            /\ calls[c].read_error =>
                  (calls[c].result = "failed" /\ calls[c].error # "none")
            /\ Len(calls[c].ran) <= 1

\* the handler of the call has left its read loop without a read error
ReadingEnded(c) ==
    /\ ~calls[c].read_error
    /\ \/ calls[c].verb = "do_put" /\ calls[c].pc \notin {"idle", "do_put"}
       \/ /\ calls[c].verb = "do_exchange"
          /\ calls[c].exchanger.cls = "MyStreamingExchanger"
          /\ calls[c].pc \in {"transform", "done"}

\* C26: when do_put or the default exchanger has left its read loop
\* without a read error, no batch remains in the input stream.
C26_ReadsToExhaustion ==
    \A c \in Calls : ReadingEnded(c) => calls[c].reader = << >>

(***************************************************************************)
(* Properties of the signal handlers (SpecFleet).                          *)
(***************************************************************************)
\* start_servers has started the server of config i
Started(i) ==
    /\ instances[i].transport # "none"
    /\ instances[i].db # "none"
    /\ instances[i].thread # "none"
    /\ variant = "flight" => instances[i].has_default

\* C27: the signal handlers are registered at most once, in a step of the
\* manager that ends start_servers after the last config; when they are
\* registered every config's server has been started and no start has
\* failed, and after a failed start they are not registered.
C27_HandlersOnceAfterAllStarted ==
    /\ [](/\ manager.installs <= 1
          /\ manager.handlers <=> manager.installs = 1
          /\ manager.handlers =>
                (manager.failed = 0 /\ \A i \in Instances : Started(i))
          /\ manager.failed # 0 => ~manager.handlers)
    /\ [][manager'.installs # manager.installs =>
            /\ manager.pc \in {"serve", "register_default"}
            /\ manager.idx = MaxInstances
            /\ manager'.pc = "main_wait"]_vars

\* every server serves and the handlers have just been registered
C27_Witness ==
    /\ manager.handlers
    /\ manager.pc = "main_wait"
    /\ \A i \in Instances : instances[i].thread = "alive"

\* a start has failed and the manager has gone through its rollback or
\* left main with no handler registered
C27_WitnessFailedStart ==
    /\ manager.failed = MaxInstances
    /\ ~manager.handlers
    /\ manager.pc \notin {"start_server", "init_database", "serve"}

(***************************************************************************)
(* Properties of the order of steps within a call (SpecIngest,             *)
(* SpecExchanger).                                                         *)
(***************************************************************************)
\* C28: while a do_put call reads its input, and when it has ended by a
\* read error, the tables are those the call found; a step of a call that
\* is reading changes nothing of the engine, and every step that changes
\* the engine is taken by a do_put call whose input is exhausted.
C28_NoMutationBeforeExhaustion ==
    /\ [](\A c \in PutCalls :
            (calls[c].pc = "do_put" \/ calls[c].read_error) =>
                db_tables = calls[c].tables_before)
    /\ [][(\E c \in PutCalls : calls[c].pc = "do_put") =>
            UNCHANGED dbVars]_vars
    /\ [][dbVars' # dbVars =>
            \E c \in PutCalls :
                /\ calls[c].pc \in {"insert_table", "execute", "unregister"}
                /\ calls[c].reader = << >>
                /\ ~calls[c].read_error]_vars

\* a second do_put ended by a read error after it had read a batch with
\* rows, the table of the first one in place
C28_Witness ==
    \E c \in PutCalls :
        /\ calls[c].pc = "done"
        /\ calls[c].read_error
        /\ calls[c].reader # << >>
        /\ Len(calls[c].reader) < Len(calls[c].input)
        /\ \E k \in 1..Len(calls[c].input) : calls[c].input[k] > 0
        /\ calls[c].command \in DOMAIN db_tables
        /\ db_tables = calls[c].tables_before

\* the exchange calls handed to the default exchanger
DefaultExchangerCalls ==
    { c \in Calls :
        /\ calls[c].verb = "do_exchange"
        /\ calls[c].exchanger.cls = "MyStreamingExchanger" }

\* C29: while the default exchanger reads, and until it has left its read
\* loop, nothing has been written to the output stream and it has not been
\* begun; no step reads a chunk once the stream is begun; and a call that
\* the default exchanger has answered without raising has begun its output
\* stream once and closed it once.
C29_CollectThenTransform ==
    /\ [](\A c \in DefaultExchangerCalls :
            /\ calls[c].pc \in {"read_chunk", "transform"} =>
                  calls[c].writer = NoWriter
            /\ (calls[c].pc = "done" /\ calls[c].result = "ok") =>
                  (calls[c].writer.begun = 1 /\ calls[c].writer.closed = 1))
    /\ [][\A c \in DefaultExchangerCalls :
            calls'[c].reader # calls[c].reader =>
                (calls[c].writer = NoWriter /\ calls'[c].writer = NoWriter)]_vars

\* an input of several batches was read to its end and answered with the
\* batches and the added column in one stream
C29_Witness ==
    \E c \in DefaultExchangerCalls :
        /\ calls[c].pc = "done"
        /\ calls[c].result = "ok"
        /\ Len(calls[c].input) = MaxBatches
        /\ calls[c].writer.batches = calls[c].input
        /\ calls[c].writer.schema = Append(calls[c].schema, "processed")
        /\ calls[c].writer.begun = 1
        /\ calls[c].writer.closed = 1

\* a read error after a chunk was kept is answered with an empty stream,
\* begun once and closed once
C29_WitnessReadError ==
    \E c \in DefaultExchangerCalls :
        /\ calls[c].pc = "done"
        /\ calls[c].read_error
        /\ calls[c].all_incoming # << >>
        /\ calls[c].writer = [NoWriter EXCEPT !.begun = 1, !.closed = 1]

(***************************************************************************)
(* Properties of the order of an instance's shutdown (SpecShutdown).       *)
(***************************************************************************)
\* C30: whenever a close of the engine connection has been attempted the
\* transport stop was called before and shutdown had been requested; the
\* connection is open as long as shutdown has not been requested; and the
\* step that attempts the close, whether the connection closes or the
\* close fails, ends shutdown() without an error.
C30_ShutdownOrdered ==
    /\ [](db_closes > 0 => (transport_stops > 0 /\ shutdown_requested))
    /\ [](~shutdown_requested => (db_open /\ transport_stops = 0))
    /\ [][db_closes' # db_closes =>
            /\ transport_stops > 0
            /\ shutdown_requested
            /\ \E c \in ShutdownCalls :
                  /\ calls[c].pc = "close"
                  /\ calls'[c].pc = "done"
                  /\ calls'[c].error = "none"]_vars
    /\ [][db_open # db_open' => db_closes' # db_closes]_vars

\* the transport has stopped, the close of the connection has failed and
\* shutdown() has returned without an error
C30_Witness ==
    \E c \in ShutdownCalls :
        /\ calls[c].pc = "done"
        /\ calls[c].error = "none"
        /\ ~serving
        /\ transport_stops = 1
        /\ db_closes = 1
        /\ db_open

(***************************************************************************)
(* Properties of concurrent calls (SpecIngestConcurrent).                  *)
(***************************************************************************)
\* at least two do_put calls were made, all have ended and none by an
\* error of reading its own stream
PutsEnded ==
    /\ Cardinality(PutCalls) >= 2
    /\ \A c \in PutCalls : calls[c].pc = "done" /\ ~calls[c].read_error

\* C31: when concurrent do_put calls into one table have all ended, each
\* has succeeded and the table holds the sum of the calls' rows.
C31_ConcurrentIngestAddsEach ==
    PutsEnded =>
        /\ \A c \in PutCalls : calls[c].result = "ok"
        /\ RowsOf(db_tables, "flights")
              = SumSeq([c \in Calls |-> SumSeq(calls[c].input)])

(***************************************************************************)
(* Properties of shutdown under signals (SpecFleet, SpecFleetLive).        *)
(***************************************************************************)
\* C32: whatever the point at which a signal handler's shutdown_servers
\* interrupts the manager's thread, the transport stop and the close of
\* the connection are each called at most once on every server.
C32_StopAndCloseAtMostOnce ==
    \A i \in Instances :
        /\ instances[i].transport_stops <= 1
        /\ instances[i].db_closes <= 1

\* a signal came between the test and the set of the flag: two calls of
\* shutdown() found the flag unset, and the stop and the close were each
\* called once
C32_Witness ==
    \E i \in Instances :
        /\ manager.signals >= 1
        /\ instances[i].checks_passed = 2
        /\ instances[i].transport_stops = 1
        /\ instances[i].db_closes = 1
        /\ instances[i].db = "closed"

\* C33: on every server, once its transport stop has been called after a
\* shutdown request, whether it returned or raised, the connection is
\* eventually closed.
C33_RequestedLeadsToClosed ==
    \A i \in Instances :
        (instances[i].shutdown_requested /\ instances[i].transport_stops > 0)
            ~> (instances[i].db = "closed")

(***************************************************************************)
(* Properties of a failed start (SpecFleet).                               *)
(***************************************************************************)
\* C34: when start_servers has raised to its caller, no server, the one
\* whose construction failed included, has a listening transport or an
\* open connection, and the running set is empty.
C34_NothingHeldAfterFailedStart ==
    manager.pc = "start_failed" =>
        /\ \A i \in Instances :
              /\ instances[i].transport # "listening"
              /\ instances[i].db # "open"
        /\ running_servers = << >>

\* the same for the servers that were started and put in the running set:
\* those that shutdown_servers can reach
C34_StartedServersReleased ==
    (manager.pc = "start_failed" /\ variant = "flight") =>
        /\ \A i \in Instances :
              (i < manager.failed /\ ~instances[i].error_logged) =>
                  instances[i].transport = "stopped"
        /\ running_servers = << >>

(***************************************************************************)
(* The shutdown event and the end of the process (SpecFleetLive)          *)
(***************************************************************************)

\* the instance's serving thread was started by the manager
Served(i) == instances[i].thread # "none"

\* C35: once the shared shutdown event is set, every instance that was
\* started eventually has shutdown() called on it and the running set
\* eventually becomes empty.
C35_EventLeadsToAllShutDown ==
    shutdown_event ~>
        (/\ running_servers = << >>
         /\ \A i \in Instances : Served(i) => instances[i].shutdown_calls >= 1)

(***************************************************************************)
(* Properties of the credential check (SpecCredentials)                    *)
(***************************************************************************)
\* the credential set the instance was configured with: the dict given to
\* the config, or the documented default when none was given
ConfiguredSet ==
    IF config_credentials.given THEN config_credentials.dict
    ELSE DefaultCredentials

\* the call carried a username/secret pair that start_call accepted
BasicAccepted(c) ==
    /\ calls[c].verb # "none"
    /\ calls[c].header.scheme = "Basic"
    /\ Accepted(c)

\* C36: with auth enabled, a username/secret check succeeds only for a pair
\* of the credential set the instance was configured with; an instance
\* configured with the empty set accepts no pair.
C36_OnlyConfiguredPairsAccepted ==
    auth_enabled =>
        \A c \in Calls :
            BasicAccepted(c) =>
                LET pair == Partition(calls[c].header.value.text, ":")
                IN  /\ pair.before \in DOMAIN ConfiguredSet
                    /\ pair.after = ConfiguredSet[pair.before]

\* The same for the set the factory holds: a pair is accepted only when it
\* is in self.credentials.
C36_OnlyFactoryPairsAccepted ==
    auth_enabled =>
        \A c \in Calls :
            BasicAccepted(c) =>
                LET pair == Partition(calls[c].header.value.text, ":")
                IN  /\ pair.before \in DOMAIN credentials
                    /\ pair.after = credentials[pair.before]

(***************************************************************************)
(* Properties of the registry under every operation (SpecRegistryOps)      *)
(***************************************************************************)
\* C37: no operation removes a command from the registry, so a command the
\* membership test of an exchange dispatch found is still there when the
\* handler is fetched, whatever registrations run at the same time.
C37_RegistryNeverShrinks ==
    /\ [][DOMAIN exchangers \subseteq DOMAIN exchangers']_vars
    /\ [](\A c \in Calls :
             /\ calls[c].pc = "fetch_exchanger" =>
                    calls[c].command \in DOMAIN exchangers
             /\ calls[c].error # "KeyError")

\* an exchange call between the membership test and the fetch, while a
\* registration under its command has stored and not yet returned
C37_Witness ==
    \E c \in Calls, d \in Calls :
        /\ calls[c].pc = "fetch_exchanger"
        /\ calls[d].pc = "add_return"
        /\ calls[d].command = calls[c].command
        /\ exchangers[calls[c].command] = calls[d].exchanger

\* a call of each other verb and a shutdown() have ended with the registry
\* as large as it ever was
C37_WitnessShutdown ==
    /\ \E c \in Calls : calls[c].verb = "shutdown" /\ calls[c].pc = "done"
    /\ \E c \in Calls : calls[c].verb = "do_action" /\ calls[c].pc = "done"
                        /\ calls[c].stored
    /\ Cardinality(DOMAIN exchangers) = 2

(***************************************************************************)
(* The frame of the credential checks (SpecCredentials)                    *)
(***************************************************************************)
\* the call is being checked by start_call in this step
Checked(c) == calls[c].pc = "start_call" /\ calls'[c].pc # "start_call"

\* the table after the step is the table before it and one entry more,
\* for the user
OneEntryAdded(user) ==
    \E t \in DOMAIN tokens' :
        /\ t \notin DOMAIN tokens
        /\ DOMAIN tokens' = DOMAIN tokens \cup {t}
        /\ tokens'[t] = user
        /\ \A k \in DOMAIN tokens : tokens'[k] = tokens[k]

\* C38: the token table changes only in a successful username/secret
\* check, which adds exactly one entry; a failed username/secret check, a
\* token check, accepted or rejected, and a call with no scheme or one that
\* is not recognized leave the token table as it is; no step changes the
\* credential set.
C38_TokenTableFrame ==
    [][/\ credentials' = credentials
       /\ \A c \in Calls :
             Checked(c) =>
                IF ValidBasic(calls[c].header)
                THEN OneEntryAdded(UserOf(calls[c].header))
                ELSE tokens' = tokens
       /\ (\A c \in Calls : ~Checked(c)) => tokens' = tokens]_vars

\* a username/secret check has added an entry, and the check of a later
\* call, which failed, has left the table with that one entry
C38_Witness ==
    /\ Cardinality(DOMAIN tokens) = 1
    /\ started = MaxTokenCalls
    /\ calls[1].pc = "done"
    /\ Unauthenticated(1)
    /\ calls[1].header.scheme = "Basic"

\* a token was accepted and has left the table as it was
C38_WitnessToken ==
    /\ Cardinality(DOMAIN tokens) = 1
    /\ calls[1].header.scheme = "Bearer"
    /\ Accepted(1)

(***************************************************************************)
(* The temporary relation of an ingest (SpecIngest)                        *)
(***************************************************************************)
\* the put call reached _insert_table's register: it kept a batch
RegisteredTemp(c) == calls[c].all_incoming # << >> /\ ~calls[c].read_error

\* C39: after a put call has ended, with or without an engine error in its
\* create or insert, the relation temp_<table> it registered is no longer
\* registered on the connection.
C39_TempRelationUnregistered ==
    \A c \in PutCalls :
        (calls[c].pc = "done" /\ RegisteredTemp(c)) =>
            TempName(calls[c].command) \notin DOMAIN db_views

\* The same for the calls that ended without an error.
C39_UnregisteredAfterSuccess ==
    \A c \in PutCalls :
        (calls[c].pc = "done" /\ RegisteredTemp(c) /\ calls[c].error = "none") =>
            TempName(calls[c].command) \notin DOMAIN db_views

====
